---------------------------- MODULE Spec2Model ----------------------------
(***************************************************************************)
(* A model of the aezpz client library (src/aezpz): the reference parser   *)
(* SchemaRef, the typed Resource with its lazy accessors and mutations,    *)
(* the paginated listing of ResourceCollection and the Api object.         *)
(*                                                                         *)
(* Strings.  A Python string is modelled as the sequence of its lexical    *)
(* tokens.  The separators the code splits on or tests for ("://", "/",    *)
(* ".", "_") are tokens of their own; every other token is a maximal run   *)
(* of characters that contains none of them, so two strings are equal      *)
(* exactly when their token sequences are.  "https://ns.adobe.com/t" is    *)
(* <<"https","://","ns",".","adobe",".","com","/","t">>.                   *)
(*                                                                         *)
(* Optional values.  Python's None is the empty tuple <<>> and a present   *)
(* value v is <<v>>.                                                       *)
(***************************************************************************)
EXTENDS Integers, Sequences, FiniteSets, TLC

VARIABLES
    \* ---- the reference parser (SpecParse) ----
    arg,        \* the identifier handed to SchemaRef(...)
    ref,        \* the outcome of SchemaRef(arg)
    byId,       \* the outcome of SchemaRef(ref.id)
    byRef,      \* the outcome of SchemaRef(ref.ref)
    ppc,        \* position of the parsing caller
    \* ---- one Resource object and its caller (Spec) ----
    res,        \* the Resource the caller holds (NoResource before the first)
    op,         \* the last operation called on it and how it ended
    answer,     \* what api.request did with the requests of that operation
    \* ---- the Api object (SpecApi) ----
    api,        \* the attributes of the Api object (NoApi before __init__)
    apiOp,      \* the last operation on the Api object and how it ended
    wire,       \* the HTTP requests handed to requests.request, in order
    \* ---- one findall of a ResourceCollection (SpecFindall) ----
    listing,    \* the server's listing: the sizes of its pages, in order
    coll,       \* the collection: its kinds (resources) and its container
    call,       \* the call: find or findall, full and the query
    fpc,        \* "idle", "paging", "returned", "raised", "found", "find raised"
    ri,         \* findall's position in self.resources
    ci,         \* findall's position in self.containers
    records,    \* _paginate's records
    params,     \* _paginate's params
    results,    \* findall's results
    flog,       \* the listing requests sent, each with the server's answer
    \* ---- the Resource objects of one caller (SpecObjects) ----
    heap,       \* the dict objects there are, by address
    held,       \* the Resource objects the caller holds, each with the
                \* address of the dict its body attribute names
    \* ---- one Batch of the catalog (SpecCatalog) ----
    batch,      \* the Batch object: its id and its _body
    \* ---- one DataSet of the catalog (SpecDataSet) ----
    dataset,    \* the DataSet object: its id and its _body
    given       \* the keyword arguments the caller passes to create and update

parseVars == <<arg, ref, byId, byRef, ppc>>
resVars == <<res, op, answer>>
apiVars == <<api, apiOp, wire>>
findVars == <<listing, coll, call, fpc, ri, ci, records, params, results, flog>>
heapVars == <<heap, held>>
catalogVars == <<batch, dataset, given>>

vars == <<arg, ref, byId, byRef, ppc, res, op, answer, api, apiOp, wire,
          listing, coll, call, fpc, ri, ci, records, params, results, flog,
          heap, held, batch, dataset, given>>

-----------------------------------------------------------------------------
(* Bounds *)

\* the longest list of segments of the free-form identifiers that are parsed
MaxSegs == 4

\* the most arguments other than None in one call of create or update
MaxGiven == 2

\* the most requests one Api object hands to the HTTP library
MaxWire == 2

\* the most pages of one listing of the server
MaxPages == 3

\* the most entries of the allOf list of a document
MaxAllOf == 3

\* the most entries of the meta:extends list of a document
MaxExtends == 3

-----------------------------------------------------------------------------
(* Python string operations on token sequences *)

None == <<>>
Some(v) == <<v>>

\* str.startswith
StartsWith(s, p) == Len(s) >= Len(p) /\ SubSeq(s, 1, Len(p)) = p

\* str.split(sep): the segments between the occurrences of the token sep;
\* a string without sep (the empty one too) is one segment
RECURSIVE Split(_, _)
Split(s, sep) ==
    IF \A i \in 1..Len(s) : s[i] # sep
    THEN <<s>>
    ELSE LET i == CHOOSE k \in 1..Len(s) :
                      s[k] = sep /\ \A j \in 1..(k - 1) : s[j] # sep
         IN  <<SubSeq(s, 1, i - 1)>> \o Split(SubSeq(s, i + 1, Len(s)), sep)

\* sep.join(segs)
RECURSIVE Join(_, _)
Join(segs, sep) ==
    IF segs = <<>> THEN <<>>
    ELSE IF Len(segs) = 1 THEN segs[1]
    ELSE segs[1] \o <<sep>> \o Join(Tail(segs), sep)

\* ref.split('://', 1)[-1]: what follows the first "://" (the whole string
\* when there is none)
AfterScheme(s) ==
    IF \A i \in 1..Len(s) : s[i] # "://"
    THEN s
    ELSE LET i == CHOOSE k \in 1..Len(s) :
                      s[k] = "://" /\ \A j \in 1..(k - 1) : s[j] # "://"
         IN  SubSeq(s, i + 1, Len(s))

-----------------------------------------------------------------------------
(* ResourceType *)

ResourceTypes == {"DATA_TYPE", "FIELD_GROUP", "SCHEMA", "CLASS", "BEHAVIOR"}

\* from_name with the alias "data" read as a data type
from_name_swapped(val) ==
    IF val = <<"mixins">> THEN "FIELD_GROUP"
    ELSE IF val = <<"fieldgroups">> THEN "FIELD_GROUP"
    ELSE IF val = <<"schemas">> THEN "SCHEMA"
    ELSE IF val = <<"classes">> THEN "CLASS"
    ELSE IF val = <<"datatypes">> THEN "DATA_TYPE"
    ELSE IF val = <<"data">> THEN "DATA_TYPE"
    ELSE IF val = <<"behaviors">> THEN "BEHAVIOR"
    ELSE "None"

\* ResourceType.from_name applied to one segment: the kind an alias names,
\* "None" for any other segment (dict.get without default)
from_name(val) ==
    IF val = <<"mixins">> THEN "FIELD_GROUP"
    ELSE IF val = <<"fieldgroups">> THEN "FIELD_GROUP"
    ELSE IF val = <<"schemas">> THEN "SCHEMA"
    ELSE IF val = <<"classes">> THEN "CLASS"
    ELSE IF val = <<"datatypes">> THEN "DATA_TYPE"
    ELSE IF val = <<"data">> THEN "BEHAVIOR"
    ELSE IF val = <<"behaviors">> THEN "BEHAVIOR"
    ELSE "None"

\* the names from_name knows
Aliases == {"mixins", "fieldgroups", "schemas", "classes", "datatypes",
            "data", "behaviors"}

-----------------------------------------------------------------------------
(* The global lookup table *)

NS_HOST == <<"ns", ".", "adobe", ".", "com">>
CanonicalPrefix == <<"https", "://">> \o NS_HOST \o <<"/">>

\* GLOBAL_RESOURCES: key (the dotted uuid) -> <<kind alias, canonical ref>>,
\* as schema.py builds it from globals.json (each value split at the space).
\* globals.json is written by scripts/download_globals.py from the server's
\* listing of the global container: key = meta:altId without its "_",
\* value = kind + " " + $id.  The entries are those the source names
\* (xdm.context.profile, xdm.data.adhoc, xdm.mixins.*), one key of four
\* segments and one whose $id is not under ns.adobe.com.
GLOBAL_RESOURCES ==
    (<<"xdm", ".", "context", ".", "profile">> :>
        <<<<"classes">>, CanonicalPrefix \o <<"xdm", "/", "context", "/", "profile">>>>)
 @@ (<<"xdm", ".", "data", ".", "adhoc">> :>
        <<<<"behaviors">>, CanonicalPrefix \o <<"xdm", "/", "data", "/", "adhoc">>>>)
 @@ (<<"xdm", ".", "mixins", ".", "weather">> :>
        <<<<"fieldgroups">>, CanonicalPrefix \o <<"xdm", "/", "mixins", "/", "weather">>>>)
 @@ (<<"xdm", ".", "context", ".", "profile", ".", "name">> :>
        <<<<"datatypes">>,
          CanonicalPrefix \o <<"xdm", "/", "context", "/", "profile", "/", "name">>>>)
 @@ (<<"schema", ".", "org", ".", "Thing">> :>
        <<<<"datatypes">>, <<"http", "://", "schema", ".", "org", "/", "Thing">>>>)

-----------------------------------------------------------------------------
(* SchemaRef *)

\* a raised exception, named by its message (AssertionError for a bare assert)
Raise(msg) == [ok |-> FALSE, error |-> msg]

UnableToParse == Raise("unable to parse ref")

\* the canonical ref of a tenant resource with the kind segment rewritten
TenantRef_normalized(split) ==
    CanonicalPrefix \o
    Join(<<split[1],
           IF from_name(split[2]) = "FIELD_GROUP" THEN <<"fieldgroups">>
           ELSE IF from_name(split[2]) = "BEHAVIOR" THEN <<"behaviors">>
           ELSE split[2],
           split[3]>>, "/")

\* the canonical ref rebuilt for a tenant resource (schema.py line 86)
TenantRef(split) == CanonicalPrefix \o Join(split, "/")

\* the branch for a key of the global table (schema.py lines 72-79)
GlobalBranch(uuid) ==
    LET entry == GLOBAL_RESOURCES[uuid]
        resource == from_name(entry[1])
    IN  IF Len(entry) # 2 THEN Raise("ValueError")
        ELSE IF resource = "None" THEN Raise("AssertionError")
        ELSE [ok |-> TRUE, container |-> "global", tenant |-> None,
              resource |-> resource, uuid |-> uuid,
              id |-> <<"_">> \o uuid, ref |-> entry[2]]

\* the branch for the three-segment tenant pattern (schema.py lines 80-86)
TenantBranch(split, uuid) ==
    [ok |-> TRUE, container |-> "tenant", tenant |-> Some(split[1]),
     resource |-> from_name(split[2]), uuid |-> split[3],
     id |-> <<"_">> \o uuid, ref |-> TenantRef(split)]

\* schema.py lines 69-88: what SchemaRef makes of the list of segments
Classify(split) ==
    IF ~(Len(split) > 1) THEN Raise("AssertionError")
    ELSE LET uuid == Join(split, ".")
         IN  IF uuid \in DOMAIN GLOBAL_RESOURCES
             THEN GlobalBranch(uuid)
             ELSE IF Len(split) = 3 /\ from_name(split[2]) # "None"
             THEN TenantBranch(split, uuid)
             ELSE UnableToParse

\* schema.py lines 60-68: the list of segments of an identifier, or the
\* exception for one that has neither a scheme nor the "_" prefix
Segments(x) ==
    IF StartsWith(x, <<"http", "://">>) \/ StartsWith(x, <<"https", "://">>)
    THEN LET split == Split(AfterScheme(x), "/")
         IN  Some(IF split[1] = NS_HOST THEN Tail(split) ELSE split)
    ELSE IF StartsWith(x, <<"_">>)
    THEN Some(Split(Tail(x), "."))
    ELSE None

\* SchemaRef.__init__: the reference object, or the exception raised
SchemaRef(x) ==
    LET segs == Segments(x)
    IN  IF segs = None THEN UnableToParse ELSE Classify(segs[1])


-----------------------------------------------------------------------------
(* Paths and headers *)

\* ResourceType.path
ResourcePath(resource) ==
    CASE resource = "DATA_TYPE" -> "datatypes"
      [] resource = "FIELD_GROUP" -> "fieldgroups"
      [] resource = "SCHEMA" -> "schemas"
      [] resource = "CLASS" -> "classes"
      [] resource = "BEHAVIOR" -> "behaviors"

\* get_accept_header with the fidelity suffix left out
get_accept_header_noFidelity(xed, xed_version) ==
    [Accept |-> <<"application/vnd.adobe.xed", "+json">>
                \o (IF xed_version = None THEN <<>>
                    ELSE <<"; version=", xed_version[1]>>)]

\* get_accept_header(xed, xed_version); the version is the text the
\* f-string makes of the number
get_accept_header(xed, xed_version) ==
    [Accept |-> (IF xed = None
                 THEN <<"application/vnd.adobe.xed", "+json">>
                 ELSE <<"application/vnd.adobe.xed", "-", xed[1], "+json">>)
                \o (IF xed_version = None THEN <<>>
                    ELSE <<"; version=", xed_version[1]>>)]

\* get_resource_path(container, resource, id)
get_resource_path(container, resource, id) ==
    <<"/data/foundation/schemaregistry/", container, "/", ResourcePath(resource)>>
    \o (IF id = None THEN <<>> ELSE <<"/">> \o id[1])

-----------------------------------------------------------------------------
(* Resource *)

\* A body is a dict: a function from its keys to their values.
\* dict.update: the keys of d replace or extend those of body
Update(body, d) ==
    [k \in DOMAIN body \cup DOMAIN d |-> IF k \in DOMAIN d THEN d[k] ELSE body[k]]

NoResource == [ok |-> FALSE, error |-> "no resource"]

\* Resource.__init__ without the comparison of the two kinds
ResourceInit_noKindCheck(cls, body) ==
    LET r == CASE body.t = "str" -> SchemaRef(body.v)
               [] body.t = "SchemaRef" -> body.v
               [] body.t = "dict" ->
                    IF "$id" \in DOMAIN body.v THEN SchemaRef(body.v["$id"])
                    ELSE Raise("KeyError")
               [] OTHER -> Raise("TypeError")
    IN  IF ~r.ok THEN r
        ELSE [ok |-> TRUE, type |-> cls, id |-> r.id, uuid |-> r.uuid, ref |-> r.ref,
              tenant |-> r.tenant, container |-> r.container,
              body |-> IF body.t = "dict" THEN body.v ELSE ("$id" :> r.ref)]

\* Resource.__init__(api, body) of the variant whose static kind is cls:
\* body is a str, a SchemaRef or a dict; the Resource, or the exception
ResourceInit(cls, body) ==
    LET r == CASE body.t = "str" -> SchemaRef(body.v)
               [] body.t = "SchemaRef" -> body.v
               [] body.t = "dict" ->
                    IF "$id" \in DOMAIN body.v THEN SchemaRef(body.v["$id"])
                    ELSE Raise("KeyError")
               [] OTHER -> Raise("TypeError")
    IN  IF ~r.ok THEN r
        ELSE IF cls # r.resource THEN Raise("Mismatched resource type")
        ELSE [ok |-> TRUE, type |-> cls, id |-> r.id, uuid |-> r.uuid, ref |-> r.ref,
              tenant |-> r.tenant, container |-> r.container,
              body |-> IF body.t = "dict" THEN body.v ELSE ("$id" :> r.ref)]

\* the request Resource.request hands to api.request
ResourceRequest(r, method, full, json) ==
    [method |-> method,
     path |-> get_resource_path(r.container, r.type, Some(r.id)),
     headers |-> get_accept_header(IF full THEN Some("full") ELSE None, Some("1")),
     json |-> json]

\* The ways api.request ends (api.py lines 187-210): it raises (a failed
\* assertion, raise_for_status), returns nothing for an empty content, or
\* returns the parsed JSON document.
ApiRaise == [kind |-> "raise"]
ApiEmpty == [kind |-> "none"]
ApiJson(doc) == [kind |-> "json", doc |-> doc]

\* Resource.request merging the response without comparing the identifiers
ResponseOutcome_unchecked(r, resp) ==
    IF resp.kind = "raise" THEN [raised |-> TRUE, error |-> "HTTPError", body |-> r.body]
    ELSE IF resp.kind = "none" THEN [raised |-> FALSE, error |-> "", body |-> r.body]
    ELSE [raised |-> FALSE, error |-> "", body |-> Update(r.body, resp.doc)]

\* Resource.request merging the response before it compares the identifiers
ResponseOutcome_mergeFirst(r, resp) ==
    IF resp.kind = "raise" THEN [raised |-> TRUE, error |-> "HTTPError", body |-> r.body]
    ELSE IF resp.kind = "none" THEN [raised |-> FALSE, error |-> "", body |-> r.body]
    ELSE IF "$id" \notin DOMAIN resp.doc \/ "meta:altId" \notin DOMAIN resp.doc
    THEN [raised |-> TRUE, error |-> "KeyError", body |-> Update(r.body, resp.doc)]
    ELSE IF resp.doc["$id"] # r.ref \/ resp.doc["meta:altId"] # r.id
    THEN [raised |-> TRUE, error |-> "AssertionError", body |-> Update(r.body, resp.doc)]
    ELSE [raised |-> FALSE, error |-> "", body |-> Update(r.body, resp.doc)]

\* Resource.request after api.request ended with resp: the body afterwards
\* and the exception that leaves the method, if any (schema.py lines 723-727)
ResponseOutcome(r, resp) ==
    IF resp.kind = "raise" THEN [raised |-> TRUE, error |-> "HTTPError", body |-> r.body]
    ELSE IF resp.kind = "none" THEN [raised |-> FALSE, error |-> "", body |-> r.body]
    ELSE IF "$id" \notin DOMAIN resp.doc
    THEN [raised |-> TRUE, error |-> "KeyError", body |-> r.body]
    ELSE IF resp.doc["$id"] # r.ref
    THEN [raised |-> TRUE, error |-> "AssertionError", body |-> r.body]
    ELSE IF "meta:altId" \notin DOMAIN resp.doc
    THEN [raised |-> TRUE, error |-> "KeyError", body |-> r.body]
    ELSE IF resp.doc["meta:altId"] # r.id
    THEN [raised |-> TRUE, error |-> "AssertionError", body |-> r.body]
    ELSE [raised |-> FALSE, error |-> "", body |-> Update(r.body, resp.doc)]

\* Resource.request emptying the body before it sends the request
Request_emptied(r, method, full, json, resp) ==
    LET o == ResponseOutcome([r EXCEPT !.body = ("$id" :> r.ref)], resp)
    IN  [sent |-> <<ResourceRequest(r, method, full, json)>>, answers |-> <<resp>>,
         raised |-> o.raised, error |-> o.error, body |-> o.body]

\* Resource.request(method, full, json) answered by resp
Request(r, method, full, json, resp) ==
    LET o == ResponseOutcome(r, resp)
    IN  [sent |-> <<ResourceRequest(r, method, full, json)>>, answers |-> <<resp>>,
         raised |-> o.raised, error |-> o.error, body |-> o.body]

\* a constructor that ended with r and fetched the document right away
Fetching(r) ==
    IF ~r.ok
    THEN [sent |-> <<>>, answers |-> <<>>, raised |-> TRUE, error |-> r.error,
          value |-> NoResource]
    ELSE [sent |-> <<ResourceRequest(r, "GET", TRUE, None)>>, answers |-> <<ApiEmpty>>,
          raised |-> FALSE, error |-> "", value |-> r]

\* a constructor that ended with r, the Resource or the exception: it sent
\* no request
Silent(r) ==
    [sent |-> <<>>, answers |-> <<>>, raised |-> ~r.ok,
     error |-> IF r.ok THEN "" ELSE r.error,
     value |-> IF r.ok THEN r ELSE NoResource]

\* a constructor that fetches the document right away
ConstructOutcome_eager(cls, body) == Fetching(ResourceInit(cls, body))

\* the call cls(api, body) as an operation: the requests it sends (none:
\* Resource.__init__, schema.py lines 688-708, never calls self.request),
\* and the Resource or the exception
ConstructOutcome(cls, body) == Silent(ResourceInit(cls, body))

\* the three Behaviors BehaviorCollection.__init__ constructs (schema.py
\* lines 627-629), by attribute
SingletonRef(name) ==
    CanonicalPrefix \o <<"xdm", "/", "data", "/",
                         CASE name = "adhoc" -> "adhoc"
                           [] name = "record" -> "record"
                           [] name = "time_series" -> "time-series">>

\* the three constructor calls of BehaviorCollection.__init__ in their
\* order, ended with a, b and c: the first exception ends the method
Singletons(a, b, c) ==
    [sent |-> a.sent \o (IF a.raised THEN <<>> ELSE b.sent)
              \o (IF a.raised \/ b.raised THEN <<>> ELSE c.sent),
     raised |-> a.raised \/ b.raised \/ c.raised,
     error |-> IF a.raised THEN a.error ELSE IF b.raised THEN b.error ELSE c.error,
     adhoc |-> a.value, record |-> b.value, time_series |-> c.value]

\* BehaviorCollection.__init__ as an operation: the requests of its three
\* constructor calls, and the three singletons or the first exception
BehaviorCollectionInit ==
    Singletons(ConstructOutcome("BEHAVIOR", [t |-> "str", v |-> SingletonRef("adhoc")]),
               ConstructOutcome("BEHAVIOR", [t |-> "str", v |-> SingletonRef("record")]),
               ConstructOutcome("BEHAVIOR", [t |-> "str", v |-> SingletonRef("time_series")]))

\* an accessor that fetches on every access
LazyGet_always(r, key, full, resp) == Request(r, "GET", full, None, resp)

\* "if key not in self.body: self.get(full=...)" of the lazy accessors
LazyGet(r, key, full, resp) ==
    IF key \in DOMAIN r.body
    THEN [sent |-> <<>>, answers |-> <<>>, raised |-> FALSE, error |-> "",
          body |-> r.body]
    ELSE Request(r, "GET", full, None, resp)

\* dict.setdefault(key, default)
SetDefault(body, key, default) ==
    IF key \in DOMAIN body THEN body ELSE Update(body, (key :> default))

\* the objects a caller passes as parent and as field groups: Resources of
\* several kinds, and a str where a Resource is expected
ObjectNames == {"class", "tenant class", "schema", "fg1", "fg2", "str"}
ParentNames == {"class", "tenant class", "schema", "str"}

Object(name) ==
    CASE name = "class" ->
            ResourceInit("CLASS", [t |-> "str", v |-> <<"_", "xdm", ".", "context", ".", "profile">>])
      [] name = "tenant class" ->
            ResourceInit("CLASS", [t |-> "str", v |-> <<"_", "t", ".", "classes", ".", "c">>])
      [] name = "schema" ->
            ResourceInit("SCHEMA", [t |-> "str", v |-> <<"_", "t", ".", "schemas", ".", "u">>])
      [] name = "fg1" ->
            ResourceInit("FIELD_GROUP", [t |-> "str", v |-> <<"_", "t", ".", "mixins", ".", "u">>])
      [] name = "fg2" ->
            ResourceInit("FIELD_GROUP",
                         [t |-> "str", v |-> <<"_", "t", ".", "fieldgroups", ".", "v">>])
      [] name = "str" -> [ok |-> FALSE, error |-> "str"]

\* the JSON patch of the title and description setters
ReplaceOp(path, value) == <<[op |-> "replace", path |-> path, value |-> value]>>

\* SchemaRef(ref).init(api) for every ref of a list: the Resources, or the
\* first exception
RECURSIVE InitAll(_)
InitAll(refs) ==
    IF refs = <<>> THEN [ok |-> TRUE, list |-> <<>>]
    ELSE LET sr == SchemaRef(Head(refs))
             first == IF sr.ok THEN ResourceInit(sr.resource, [t |-> "SchemaRef", v |-> sr])
                      ELSE sr
             rest == InitAll(Tail(refs))
         IN  IF ~first.ok THEN first
             ELSE IF ~rest.ok THEN rest
             ELSE [ok |-> TRUE, list |-> <<first>> \o rest.list]

\* the filter taking the first Behavior there is
BehaviorOf_first(extends) ==
    LET behaviors == SelectSeq(extends, LAMBDA r : r.type = "BEHAVIOR")
    IN  IF Len(behaviors) = 0 THEN Raise("AssertionError")
        ELSE [ok |-> TRUE, value |-> behaviors[1]]

\* Schema.behavior and Class.behavior after self.extends returned the list
\* (schema.py lines 835-837 and 861-863)
BehaviorOf(extends) ==
    LET behaviors == SelectSeq(extends, LAMBDA r : r.type = "BEHAVIOR")
    IN  IF ~(Len(behaviors) = 1) THEN Raise("AssertionError")
        ELSE [ok |-> TRUE, value |-> behaviors[1]]

\* dict.get(key, {}): an absent key reads as the empty dict
GetOrEmpty(d, key) == IF key \in DOMAIN d THEN d[key] ELSE <<>>

LocalPrefix == <<"#", "/", "definitions", "/">>

\* the body of the loop letting a later entry override an earlier one
MergeRecord_override(body, record, properties) ==
    LET target == GetOrEmpty(record, "$ref")
        field == SubSeq(target, Len(LocalPrefix) + 1, Len(target))
        defs == GetOrEmpty(body, "definitions")
        local == StartsWith(target, <<"#">>)
        definition == IF local THEN defs[field] ELSE record
        contributed == GetOrEmpty(definition, "properties")
    IN  IF local /\ "properties" \in DOMAIN record
        THEN Raise("unexpected \"properties\" and \"$ref\" definition")
        ELSE IF local /\ ~StartsWith(target, LocalPrefix)
        THEN Raise("unexpected non-definitions reference")
        ELSE IF local /\ (\E j \in 1..Len(field) : field[j] = "/")
        THEN Raise("unexpected nested definition reference")
        ELSE IF local /\ field \notin DOMAIN defs
        THEN Raise("reference to missing definition")
        ELSE IF local /\ "properties" \notin DOMAIN definition
        THEN Raise("expected definition to be an object")
        ELSE [ok |-> TRUE, value |-> Update(properties, contributed)]

\* the body of the loop skipping a local reference that does not resolve
MergeRecord_lenient(body, record, properties) ==
    LET target == GetOrEmpty(record, "$ref")
        field == SubSeq(target, Len(LocalPrefix) + 1, Len(target))
        defs == GetOrEmpty(body, "definitions")
        local == StartsWith(target, <<"#">>)
        resolved == /\ StartsWith(target, LocalPrefix)
                    /\ field \in DOMAIN defs
                    /\ "properties" \in DOMAIN defs[field]
        contributed == IF ~local THEN GetOrEmpty(record, "properties")
                       ELSE IF resolved THEN defs[field]["properties"]
                       ELSE <<>>
    IN  IF DOMAIN contributed \cap DOMAIN properties # {}
        THEN Raise("unhandled merging of definitions")
        ELSE [ok |-> TRUE, value |-> Update(properties, contributed)]

\* the body of the loop of Resource.definitions for one allOf entry
\* (schema.py lines 777-789): the mapping merged so far with the
\* properties the entry contributes, or the failed assertion
MergeRecord(body, record, properties) ==
    LET target == GetOrEmpty(record, "$ref")
        field == SubSeq(target, Len(LocalPrefix) + 1, Len(target))
        defs == GetOrEmpty(body, "definitions")
        local == StartsWith(target, <<"#">>)
        definition == IF local THEN defs[field] ELSE record
        contributed == GetOrEmpty(definition, "properties")
    IN  IF local /\ "properties" \in DOMAIN record
        THEN Raise("unexpected \"properties\" and \"$ref\" definition")
        ELSE IF local /\ ~StartsWith(target, LocalPrefix)
        THEN Raise("unexpected non-definitions reference")
        ELSE IF local /\ (\E j \in 1..Len(field) : field[j] = "/")
        THEN Raise("unexpected nested definition reference")
        ELSE IF local /\ field \notin DOMAIN defs
        THEN Raise("reference to missing definition")
        ELSE IF local /\ "properties" \notin DOMAIN definition
        THEN Raise("expected definition to be an object")
        ELSE IF DOMAIN contributed \cap DOMAIN properties # {}
        THEN Raise("unhandled merging of definitions")
        ELSE [ok |-> TRUE, value |-> Update(properties, contributed)]

\* the loop over body['allOf'], from the entries left and the mapping so far
RECURSIVE MergeAllOf(_, _, _)
MergeAllOf(body, allOf, properties) ==
    IF allOf = <<>> THEN [ok |-> TRUE, value |-> properties]
    ELSE LET m == MergeRecord(body, Head(allOf), properties)
         IN  IF ~m.ok THEN m ELSE MergeAllOf(body, Tail(allOf), m.value)

-----------------------------------------------------------------------------
(* The server's answers to the requests of one Resource *)

Titles == {"A", "B"}

OtherRef == CanonicalPrefix \o <<"t", "/", "schemas", "/", "other">>
OtherId == <<"_", "t", ".", "schemas", ".", "other">>

ClassRef == CanonicalPrefix \o <<"xdm", "/", "context", "/", "profile">>
BehaviorRef == CanonicalPrefix \o <<"xdm", "/", "data", "/", "adhoc">>

\* a document with the identifiers only
DocMin(r) == ("$id" :> r.ref) @@ ("meta:altId" :> r.id)

\* a low-fidelity document: scalars, the composition list with a reference
\* to another resource, a local definition and an inline block, and the
\* list of extended resources
DocLow(r, title) ==
    DocMin(r)
    @@ ("title" :> title) @@ ("description" :> "D") @@ ("version" :> "1.0")
    @@ ("allOf" :> << ("$ref" :> ClassRef),
                      ("$ref" :> LocalPrefix \o <<"f">>),
                      ("properties" :> ("y" :> "string")) >>)
    @@ ("definitions" :> (<<"f">> :> ("properties" :> ("x" :> "string"))))
    @@ ("meta:extends" :> <<ClassRef, BehaviorRef>>)

\* a full-fidelity document
DocFull(r, title) ==
    DocLow(r, title) @@ ("properties" :> (("x" :> "string") @@ ("y" :> "string")))

\* the document of a schema names its class in meta:class, that of a field
\* group the resources it is meant for in meta:intendedToExtend
WithRelations(r, doc) ==
    IF r.type = "SCHEMA" THEN doc @@ ("meta:class" :> ClassRef)
    ELSE IF r.type = "FIELD_GROUP" THEN doc @@ ("meta:intendedToExtend" :> <<ClassRef>>)
    ELSE doc

\* what the server may send back for a request of r: a failure, an empty
\* content, or a document, well-formed or of another resource
ServerDocs(r) ==
    {DocMin(r), WithRelations(r, DocLow(r, "A")), WithRelations(r, DocLow(r, "B")),
     WithRelations(r, DocFull(r, "A")),
     Update(DocLow(r, "A"), ("$id" :> OtherRef)),
     Update(DocLow(r, "A"), ("meta:altId" :> OtherId))}

Responses(r) == {ApiRaise, ApiEmpty} \cup {ApiJson(d) : d \in ServerDocs(r)}

-----------------------------------------------------------------------------
(* Api *)

NoApi == [ok |-> FALSE, attrs |-> <<>>]

\* getattr(obj, name, None) is truthy: the attribute exists and its value
\* is not empty (the values the model stores in attributes never are)
AttrTruthy(obj, name) == name \in DOMAIN obj.attrs

\* the attributes Api.__init__ sets (api.py lines 88-111); the collections
\* are named by their class
ApiAttrs(sandbox, verbose, config, token) ==
    ("sandbox" :> sandbox) @@ ("verbose" :> verbose)
    @@ ("base_url" :> "https://platform.adobe.io")
    @@ ("_config" :> config) @@ ("_access_token" :> token)
    @@ [n \in {"registry", "global_registry", "tenant_registry"} |-> "ResourceCollection"]
    @@ [n \in {"schemas", "global_schemas", "tenant_schemas"} |-> "SchemaCollection"]
    @@ [n \in {"classes", "global_classes", "tenant_classes"} |-> "ClassCollection"]
    @@ [n \in {"field_groups", "global_field_groups", "tenant_field_groups"}
           |-> "FieldGroupCollection"]
    @@ [n \in {"data_types", "global_data_types", "tenant_data_types"}
           |-> "DataTypeCollection"]
    @@ ("behaviors" :> "BehaviorCollection")
    @@ ("datasets" :> "DatasetCollection") @@ ("batches" :> "BatchCollection")

\* Api.load_config_file: the dict kept in _config, or the exception for a
\* file that lacks a key
load_config_file(file) ==
    IF {"CLIENT_ID", "ORG_ID", "CLIENT_SECRETS", "SCOPES", "TECHNICAL_ACCOUNT_ID"}
         \subseteq DOMAIN file
    THEN [ok |-> TRUE,
          config |-> [CLIENT_ID |-> file["CLIENT_ID"], ORG_ID |-> file["ORG_ID"],
                      CLIENT_SECRET |-> file["CLIENT_SECRETS"][1],
                      SCOPES |-> file["SCOPES"],
                      ACCOUNT_ID |-> file["TECHNICAL_ACCOUNT_ID"]]]
    ELSE Raise("KeyError")

\* the property Api.headers: the dict, or the failed assertion
ApiHeaders(a) ==
    IF ~(AttrTruthy(a, "config") /\ AttrTruthy(a, "access_token"))
    THEN Raise("need to authenticate first")
    ELSE [ok |-> TRUE,
          value |-> ("x-sandbox-name" :> a.attrs["sandbox"])
                    @@ ("x-api-key" :> a.attrs["_config"].CLIENT_ID)
                    @@ ("x-gw-ims-org-id" :> a.attrs["_config"].ORG_ID)
                    @@ ("Authorization" :> <<"Bearer ", a.attrs["_access_token"]>>)]

\* Response.raise_for_status raises for the statuses 400 to 599
RaisesForStatus(status) == status >= 400 /\ status < 600

\* Api.request(method, path, headers) when the server answers with the
\* status and the content (<<>> for an empty one): the requests handed to
\* the HTTP library, and the value returned or the exception
ApiRequest(a, method, path, headers, status, content) ==
    LET h == ApiHeaders(a)
    IN  IF ~h.ok THEN [sent |-> <<>>, raised |-> TRUE, error |-> h.error, value |-> None]
        ELSE IF "Authorization" \notin DOMAIN h.value
        THEN [sent |-> <<>>, raised |-> TRUE, error |-> "need to load_config first",
              value |-> None]
        ELSE LET q == [method |-> method,
                       url |-> <<a.attrs["base_url"]>> \o path,
                       headers |-> Update(h.value, headers)]
             IN  IF RaisesForStatus(status)
                 THEN [sent |-> <<q>>, raised |-> TRUE, error |-> "HTTPError",
                       value |-> None]
                 ELSE [sent |-> <<q>>, raised |-> FALSE, error |-> "",
                       value |-> IF content = <<>> THEN None ELSE Some(content)]

HeapIdle ==
    /\ heap = <<>>
    /\ held = <<>>

\* Batch(api, id) and DataSet(api, id): _body is None
\* (datasets.py lines 429-432 and 196-199)
NewBatch(id) == [id |-> id, body |-> None]
NewDataSet(id) == [id |-> id, body |-> None]

\* the keyword arguments create and update hand to form_dataset_body, in
\* the order handed (datasets.py lines 170-185 and 339-354)
ArgOrder ==
    <<"name", "description", "tags", "enableErrorDiagnostics", "observableSchema",
      "format", "delimiters", "quotes", "escapes", "nullMarkers", "header",
      "charset", "schema", "dataSourceId">>

ArgNames == {ArgOrder[i] : i \in 1..Len(ArgOrder)}

CatalogIdle ==
    /\ batch = NewBatch("b")
    /\ dataset = NewDataSet("d")
    /\ given = [k \in ArgNames |-> None]

ApiIdle ==
    /\ api = NoApi
    /\ apiOp = [name |-> "none", arg |-> None, outcome |-> "returned", error |-> "",
                value |-> None]
    /\ wire = <<>>

-----------------------------------------------------------------------------
(* ResourceCollection: findall and _paginate *)

AllResources == <<"DATA_TYPE", "FIELD_GROUP", "SCHEMA", "CLASS", "BEHAVIOR">>

\* ResourceCollection.__init__: an empty list of kinds stands for all five
Collection(container, resources) ==
    [container |-> container,
     resources |-> IF Len(resources) = 0 THEN AllResources ELSE resources]

\* the containers of an unbound collection with the global one first
Containers_globalFirst(c) ==
    IF c.container # None THEN <<c.container[1]>> ELSE <<"global", "tenant">>

\* ResourceCollection.containers
Containers(c) == IF c.container # None THEN <<c.container[1]>> ELSE <<"tenant", "global">>

\* params['property'] = ','.join(k + '==' + v for k, v in query.items());
\* the query is the list of its (key, value) items
RECURSIVE PropertyFilter(_)
PropertyFilter(query) ==
    IF query = <<>> THEN <<>>
    ELSE <<query[1][1], "==", query[1][2]>>
         \o (IF Len(query) = 1 THEN <<>> ELSE <<",">> \o PropertyFilter(Tail(query)))

\* _paginate before its loop (schema.py lines 196-203)
InitialParams(query) ==
    IF Len(query) # 0 THEN ("property" :> PropertyFilter(query)) ELSE <<>>

\* the request of one turn of _paginate's loop (schema.py lines 205-211)
ListingRequest(container, resource, full, p) ==
    [method |-> "GET",
     path |-> get_resource_path(container, resource, None),
     headers |-> get_accept_header(IF full THEN Some("full") ELSE None, None),
     params |-> p]

\* one turn of the loop that keeps only the last page
PaginateTurn_lastPageOnly(recs, p, r) ==
    [records |-> r["results"],
     params |-> IF "next" \in DOMAIN r["_page"] /\ r["_page"]["next"] # None
                THEN Update(p, ("start" :> r["_page"]["next"])) ELSE p,
     more |-> "next" \in DOMAIN r["_page"] /\ r["_page"]["next"] # None]

\* one turn of a loop that ends after every page
PaginateTurn_stopEarly(recs, p, r) ==
    [records |-> recs \o r["results"],
     params |-> IF "next" \in DOMAIN r["_page"] /\ r["_page"]["next"] # None
                THEN Update(p, ("start" :> r["_page"]["next"])) ELSE p,
     more |-> FALSE]

\* one turn of _paginate's loop after the response r (schema.py lines
\* 212-216): the records, the params and whether the loop goes on
PaginateTurn(recs, p, r) ==
    [records |-> recs \o r["results"],
     params |-> IF "next" \in DOMAIN r["_page"] /\ r["_page"]["next"] # None
                THEN Update(p, ("start" :> r["_page"]["next"])) ELSE p,
     more |-> "next" \in DOMAIN r["_page"] /\ r["_page"]["next"] # None]

\* find settling for the first of several matches
FindOutcome_first(found) ==
    IF Len(found) = 0 THEN Raise("Could not find resource")
    ELSE [ok |-> TRUE, value |-> found[1]]

\* find after findall returned the list (schema.py lines 189-193)
FindOutcome(found) ==
    IF Len(found) = 0 THEN Raise("Could not find resource")
    ELSE IF Len(found) > 1 THEN Raise("Multiple resources match the parameters")
    ELSE [ok |-> TRUE, value |-> found[1]]

\* resource._class(self.api, record) for every record (schema.py lines
\* 240-241): the Resources, or the first exception
RECURSIVE WrapInto(_, _, _)
WrapInto(resource, recs, list) ==
    IF recs = <<>> THEN [ok |-> TRUE, list |-> list]
    ELSE IF ~ResourceInit(resource, [t |-> "dict", v |-> Head(recs)]).ok
    THEN ResourceInit(resource, [t |-> "dict", v |-> Head(recs)])
    ELSE WrapInto(resource, Tail(recs),
                  Append(list, ResourceInit(resource, [t |-> "dict", v |-> Head(recs)])))

Wrap(resource, recs) == WrapInto(resource, recs, <<>>)

\* the value Python hands to resource._class when api.request returned
\* resp: the parsed document, or None
Returned(resp) ==
    IF resp.kind = "json" THEN [t |-> "dict", v |-> resp.doc]
    ELSE [t |-> "NoneType", v |-> None]

\* the POST of _create (schema.py lines 248-255)
CreateRequest(c, body) ==
    [method |-> "POST",
     path |-> get_resource_path("tenant", c.resources[1], None),
     headers |-> get_accept_header(None, Some("1")),
     json |-> Some(body)]

\* _create without the test of the container
Create_anyContainer(c, body, resp) ==
    IF ~(Len(c.resources) = 1)
    THEN [sent |-> <<>>, answers |-> <<>>, raised |-> TRUE, error |-> "AssertionError",
          value |-> NoResource]
    ELSE IF resp.kind = "raise"
    THEN [sent |-> <<CreateRequest(c, body)>>, answers |-> <<resp>>, raised |-> TRUE,
          error |-> "HTTPError", value |-> NoResource]
    ELSE LET r == ResourceInit(c.resources[1], Returned(resp))
         IN  [sent |-> <<CreateRequest(c, body)>>, answers |-> <<resp>>,
              raised |-> ~r.ok, error |-> IF r.ok THEN "" ELSE r.error,
              value |-> IF r.ok THEN r ELSE NoResource]

\* ResourceCollection._create(body) when api.request ends with resp: the
\* requests sent, and the Resource returned or the exception
Create(c, body, resp) ==
    IF c.container = Some("global")
    THEN [sent |-> <<>>, answers |-> <<>>, raised |-> TRUE,
          error |-> "cannot create global resource", value |-> NoResource]
    ELSE IF ~(Len(c.resources) = 1)
    THEN [sent |-> <<>>, answers |-> <<>>, raised |-> TRUE, error |-> "AssertionError",
          value |-> NoResource]
    ELSE IF resp.kind = "raise"
    THEN [sent |-> <<CreateRequest(c, body)>>, answers |-> <<resp>>, raised |-> TRUE,
          error |-> "HTTPError", value |-> NoResource]
    ELSE LET r == ResourceInit(c.resources[1], Returned(resp))
         IN  [sent |-> <<CreateRequest(c, body)>>, answers |-> <<resp>>,
              raised |-> ~r.ok, error |-> IF r.ok THEN "" ELSE r.error,
              value |-> IF r.ok THEN r ELSE NoResource]

\* the kinds a collection holds
Allowed(c) == {c.resources[i] : i \in 1..Len(c.resources)}

\* get without the test of the kind
CollectionGet_anyKind(c, x) ==
    LET sr == SchemaRef(x)
    IN  IF ~sr.ok THEN sr
        ELSE ResourceInit(sr.resource, [t |-> "SchemaRef", v |-> sr])

\* get refusing an identifier of a container the collection is not bound to
CollectionGet_scoped(c, x) ==
    LET sr == SchemaRef(x)
    IN  IF ~sr.ok THEN sr
        ELSE IF sr.resource \notin Allowed(c) THEN Raise("AssertionError")
        ELSE IF c.container # None /\ sr.container # c.container[1]
        THEN Raise("AssertionError")
        ELSE ResourceInit(sr.resource, [t |-> "SchemaRef", v |-> sr])

\* ResourceCollection.get(ref) (schema.py lines 164-166) with SchemaRef.init
\* (line 91): the Resource, or the exception
CollectionGet(c, x) ==
    LET sr == SchemaRef(x)
    IN  IF ~sr.ok THEN sr
        ELSE IF sr.resource \notin Allowed(c) THEN Raise("AssertionError")
        ELSE ResourceInit(sr.resource, [t |-> "SchemaRef", v |-> sr])

\* isinstance(obj, <the Resource subclass of the kind cls>)
IsInstance(obj, cls) == obj.ok /\ obj.type = cls

-----------------------------------------------------------------------------
(* The server's listings *)

\* the sizes a page may have
PageSizes == {0, 1, 2}

\* the item i of page p of the listing of (resource, container): platform
\* resources live under xdm, the tenant's under t
Item(resource, container, p, i) ==
    LET segs == <<IF container = "global" THEN <<"xdm">> ELSE <<"t">>,
                  <<ResourcePath(resource)>>,
                  <<"u", ToString(p), "-", ToString(i)>>>>
    IN  ("$id" :> CanonicalPrefix \o Join(segs, "/"))
        @@ ("meta:altId" :> <<"_">> \o Join(segs, "."))

\* page p of the listing: its items, and the cursor of the next page when
\* one follows
Page(shape, resource, container, p) ==
    ("results" :> [i \in 1..shape[p] |-> Item(resource, container, p, i)])
    @@ ("_page" :> IF p < Len(shape)
                   THEN ("count" :> shape[p]) @@ ("next" :> <<"cursor", ToString(p + 1)>>)
                   ELSE ("count" :> shape[p]))

\* the page the server answers a request with: the first without start,
\* else the one the cursor names
ServedPage(shape, resource, container, p) ==
    IF "start" \notin DOMAIN p THEN Page(shape, resource, container, 1)
    ELSE LET n == CHOOSE k \in 1..Len(shape) : <<"cursor", ToString(k)>> = p["start"]
         IN  Page(shape, resource, container, n)

\* all listings of at most n pages
RECURSIVE Shapes(_)
Shapes(n) ==
    IF n = 1 THEN {<<s>> : s \in PageSizes}
    ELSE Shapes(n - 1)
         \cup {l \o <<s>> : l \in {m \in Shapes(n - 1) : Len(m) = n - 1}, s \in PageSizes}

FindIdle ==
    /\ listing = <<>>
    /\ coll = Collection(None, <<>>)
    /\ call = [via |-> "findall", full |-> FALSE, query |-> <<>>]
    /\ fpc = "idle"
    /\ ri = 1
    /\ ci = 1
    /\ records = <<>>
    /\ params = <<>>
    /\ results = <<>>
    /\ flog = <<>>

-----------------------------------------------------------------------------
(* The parser at rest *)

\* not computed yet
Unset == [ok |-> FALSE, error |-> "unset"]

ParseIdle ==
    /\ arg = <<>>
    /\ ref = Unset
    /\ byId = Unset
    /\ byRef = Unset
    /\ ppc = "idle"

-----------------------------------------------------------------------------
(* The operations of a caller on one Resource *)

\* how an operation ended: what it was called with, whether it returned or
\* raised, the requests it sent, and the value it returned
Ended(name, a, sent, raised, error, value) ==
    [name |-> name, arg |-> a, outcome |-> IF raised THEN "raised" ELSE "returned",
     error |-> error, sent |-> sent, value |-> IF raised THEN None ELSE value]

NoOp == Ended("none", None, <<>>, FALSE, "", None)

ResIdle ==
    /\ res = NoResource
    /\ op = NoOp
    /\ answer = <<>>

\* the identifiers Resources are constructed from
StrArgs ==
    {<<"_", "t", ".", "schemas", ".", "u">>,
     CanonicalPrefix \o <<"t", "/", "mixins", "/", "u">>,
     <<"_", "xdm", ".", "data", ".", "adhoc">>,
     <<"t", ".", "schemas", ".", "u">>}

\* the arguments of the constructors, made from an identifier x: the str
\* itself, its SchemaRef, a dict (with the bare $id, a server payload, or
\* without $id), and a value of another type
ArgKinds == {"str", "SchemaRef", "dict", "payload", "dict without $id", "NoneType"}

ConstructorArg(kind, x) ==
    CASE kind = "str" -> [t |-> "str", v |-> x]
      [] kind = "SchemaRef" -> [t |-> "SchemaRef", v |-> SchemaRef(x)]
      [] kind = "dict" -> [t |-> "dict", v |-> ("$id" :> SchemaRef(x).ref)]
      [] kind = "payload" -> [t |-> "dict", v |-> DocLow(SchemaRef(x), "A")]
      [] kind = "dict without $id" -> [t |-> "dict", v |-> ("title" :> "A")]
      [] kind = "NoneType" -> [t |-> "NoneType", v |-> None]

\* an operation that hands the caller a Resource ended with the outcome o
Handed(name, a, o) ==
    /\ res' = IF o.raised THEN res ELSE o.value
    /\ answer' = o.answers
    /\ op' = Ended(name, a, o.sent, o.raised, o.error, Some(o.value))
    /\ UNCHANGED <<parseVars, heapVars, catalogVars, apiVars, findVars>>

\* DataType(api, body), FieldGroup(api, body), Schema(api, body),
\* Class(api, body), Behavior(api, body): the caller constructs until it
\* holds a Resource, and then works with that one
Construct ==
    /\ ~res.ok
    /\ \E cls \in ResourceTypes, kind \in ArgKinds, x \in StrArgs :
        /\ kind \in {"SchemaRef", "dict", "payload"} => SchemaRef(x).ok
        /\ Handed("construct", [cls |-> cls, body |-> ConstructorArg(kind, x)],
                  ConstructOutcome(cls, ConstructorArg(kind, x)))

\* the attribute name of the BehaviorCollection whose construction ended
\* with o
Taken(o, name) ==
    [sent |-> o.sent, answers |-> <<>>, raised |-> o.raised, error |-> o.error,
     value |-> CASE name = "adhoc" -> o.adhoc
                 [] name = "record" -> o.record
                 [] name = "time_series" -> o.time_series]

\* api.registry.get(ref): the caller obtains its Resource from the
\* collection of all kinds
RegistryGet ==
    /\ ~res.ok
    /\ \E x \in StrArgs :
        Handed("collection get", [cls |-> "Resource", body |-> [t |-> "str", v |-> x]],
               Silent(CollectionGet(coll, x)))

\* BehaviorCollection(api): the caller takes one of the three singletons
BehaviorSingleton ==
    /\ ~res.ok
    /\ \E name \in {"adhoc", "record", "time_series"} :
        Handed("BehaviorCollection",
               [cls |-> "BEHAVIOR", body |-> [t |-> "str", v |-> SingletonRef(name)]],
               Taken(BehaviorCollectionInit, name))

\* Resource.extends after its lazy get ended with f (schema.py lines
\* 795-800): the body with the default, and the Resources of the list or
\* the exception
Extended(f) ==
    [sent |-> f.sent, answers |-> f.answers,
     body |-> IF f.raised THEN f.body ELSE SetDefault(f.body, "meta:extends", <<>>),
     m |-> IF f.raised THEN Raise(f.error)
           ELSE InitAll(SetDefault(f.body, "meta:extends", <<>>)["meta:extends"])]

\* an accessor built on self.extends ended: e is what extends did, b the
\* accessor's value or exception
Accessed(name, e, b) ==
    /\ res' = [res EXCEPT !.body = e.body]
    /\ answer' = e.answers
    /\ op' = Ended(name, None, e.sent, ~b.ok, IF b.ok THEN "" ELSE b.error,
                   IF b.ok THEN Some(b.value) ELSE None)
    /\ UNCHANGED <<parseVars, heapVars, catalogVars, apiVars, findVars>>

ExtendsEnded(name, e) ==
    Accessed(name, e, IF e.m.ok THEN [ok |-> TRUE, value |-> e.m.list] ELSE e.m)

\* Resource.get(full)
Get ==
    /\ res.ok
    /\ \E full \in BOOLEAN, resp \in Responses(res) :
        LET f == Request(res, "GET", full, None, resp)
        IN  /\ res' = [res EXCEPT !.body = f.body]
            /\ answer' = f.answers
            /\ op' = Ended("get", Some(full), f.sent, f.raised, f.error, None)
    /\ UNCHANGED <<parseVars, heapVars, catalogVars, apiVars, findVars>>

\* Resource.delete()
Delete ==
    /\ res.ok
    /\ \E resp \in Responses(res) :
        LET f == Request(res, "DELETE", FALSE, None, resp)
        IN  /\ res' = [res EXCEPT !.body = f.body]
            /\ answer' = f.answers
            /\ op' = Ended("delete", None, f.sent, f.raised, f.error, None)
    /\ UNCHANGED <<parseVars, heapVars, catalogVars, apiVars, findVars>>

\* the setters of title and description (schema.py lines 741-747, 755-761)
Setter(name, path) ==
    /\ res.ok
    /\ \E value \in Titles, resp \in Responses(res) :
        LET f == Request(res, "PATCH", FALSE, Some(ReplaceOp(path, value)), resp)
        IN  /\ res' = [res EXCEPT !.body = f.body]
            /\ answer' = f.answers
            /\ op' = Ended(name, Some(value), f.sent, f.raised, f.error, None)
    /\ UNCHANGED <<parseVars, heapVars, catalogVars, apiVars, findVars>>

SetTitle == Setter("title=", <<"/", "title">>)

\* the JSON patch of add_field_group (schema.py lines 845-847)
AddOp(id) ==
    <<[op |-> "add", path |-> <<"/", "allOf", "/", "-">>, value |-> ("$ref" :> id)]>>

\* return self(**r) (schema.py line 848) after self.request ended with f:
\* r is the Schema itself, which is no mapping and cannot be called
CalledWith(f) ==
    [sent |-> f.sent, answers |-> f.answers, raised |-> TRUE,
     error |-> IF f.raised THEN f.error ELSE "TypeError", body |-> f.body]

\* add_field_group returning the Schema after the request
add_field_group_returning(r, fg, resp) ==
    IF ~IsInstance(fg, "FIELD_GROUP")
    THEN [sent |-> <<>>, answers |-> <<>>, raised |-> TRUE, error |-> "AssertionError",
          body |-> r.body]
    ELSE Request(r, "PATCH", FALSE, Some(AddOp(fg.id)), resp)

\* Schema.add_field_group(field_group) on the Schema r (schema.py lines
\* 843-848), when api.request answers with resp
add_field_group(r, fg, resp) ==
    IF ~IsInstance(fg, "FIELD_GROUP")
    THEN [sent |-> <<>>, answers |-> <<>>, raised |-> TRUE, error |-> "AssertionError",
          body |-> r.body]
    ELSE CalledWith(Request(r, "PATCH", FALSE, Some(AddOp(fg.id)), resp))

\* the caller's Schema after add_field_group(Object(name)) ended with f
Added(name, f) ==
    /\ res' = [res EXCEPT !.body = f.body]
    /\ answer' = f.answers
    /\ op' = Ended("add_field_group", Some(name), f.sent, f.raised, f.error, None)
    /\ UNCHANGED <<parseVars, heapVars, catalogVars, apiVars, findVars>>

\* schema.add_field_group(field_group), with a FieldGroup, another
\* Resource or a str
AddFieldGroup ==
    /\ res.ok
    /\ res.type = "SCHEMA"
    /\ \E name \in {"fg1", "fg2", "schema", "str"}, resp \in Responses(res) :
          Added(name, add_field_group(res, Object(name), resp))
SetDescription == Setter("description=", <<"/", "description">>)

\* the getters of version, title and description: a low-fidelity fetch when
\* the key is absent, then self.body[key]
ScalarGetter(key) ==
    /\ res.ok
    /\ \E resp \in Responses(res) :
        LET f == LazyGet(res, key, FALSE, resp)
            missing == ~f.raised /\ key \notin DOMAIN f.body
        IN  /\ res' = [res EXCEPT !.body = f.body]
            /\ answer' = f.answers
            /\ op' = Ended(key, None, f.sent, f.raised \/ missing,
                           IF missing THEN "KeyError" ELSE f.error,
                           IF f.raised \/ missing THEN None ELSE Some(f.body[key]))
    /\ UNCHANGED <<parseVars, heapVars, catalogVars, apiVars, findVars>>

Version == ScalarGetter("version")
Title == ScalarGetter("title")
Description == ScalarGetter("description")

\* Resource.properties
Properties ==
    /\ res.ok
    /\ \E resp \in Responses(res) :
        LET f == LazyGet(res, "properties", TRUE, resp)
            body == IF f.raised THEN f.body ELSE SetDefault(f.body, "properties", <<>>)
        IN  /\ res' = [res EXCEPT !.body = body]
            /\ answer' = f.answers
            /\ op' = Ended("properties", None, f.sent, f.raised, f.error,
                           IF f.raised THEN None ELSE Some(body["properties"]))
    /\ UNCHANGED <<parseVars, heapVars, catalogVars, apiVars, findVars>>

\* Resource.definitions
Definitions ==
    /\ res.ok
    /\ \E resp \in Responses(res) :
        LET f == LazyGet(res, "allOf", FALSE, resp)
            body == IF f.raised THEN f.body ELSE SetDefault(f.body, "allOf", <<>>)
            m == IF f.raised THEN Raise(f.error) ELSE MergeAllOf(body, body["allOf"], <<>>)
        IN  /\ res' = [res EXCEPT !.body = body]
            /\ answer' = f.answers
            /\ op' = Ended("definitions", None, f.sent, ~m.ok,
                           IF m.ok THEN "" ELSE m.error,
                           IF m.ok THEN Some(m.value) ELSE None)
    /\ UNCHANGED <<parseVars, heapVars, catalogVars, apiVars, findVars>>

\* Resource.extends
Extends ==
    /\ res.ok
    /\ \E resp \in Responses(res) :
        ExtendsEnded("extends", Extended(LazyGet(res, "meta:extends", FALSE, resp)))

\* the object a constructor call ended with, as the value of an accessor
Wrapped(c) == IF c.ok THEN [ok |-> TRUE, value |-> c] ELSE c

\* Schema.parent after its lazy get ended with f (schema.py line 831):
\* Class(self.api, self.body['meta:class'])
ParentOf(f) ==
    IF f.raised THEN Raise(f.error)
    ELSE IF "meta:class" \notin DOMAIN f.body THEN Raise("KeyError")
    ELSE Wrapped(ResourceInit("CLASS", [t |-> "str", v |-> f.body["meta:class"]]))

ParentReturned(f) == Accessed("parent", f, ParentOf(f))

\* Schema.parent (schema.py lines 827-831)
Parent ==
    /\ res.ok
    /\ res.type = "SCHEMA"
    /\ \E resp \in Responses(res) :
        ParentReturned(LazyGet(res, "meta:class", TRUE, resp))

\* FieldGroup.intendedToExtend after its lazy get ended with f (schema.py
\* lines 880-882)
Intended(f) ==
    [sent |-> f.sent, answers |-> f.answers,
     body |-> IF f.raised THEN f.body ELSE SetDefault(f.body, "meta:intendedToExtend", <<>>),
     m |-> IF f.raised THEN Raise(f.error)
           ELSE InitAll(SetDefault(f.body, "meta:intendedToExtend", <<>>)["meta:intendedToExtend"])]

\* FieldGroup.intendedToExtend (schema.py lines 877-882)
IntendedToExtend ==
    /\ res.ok
    /\ res.type = "FIELD_GROUP"
    /\ \E resp \in Responses(res) :
        ExtendsEnded("intendedToExtend",
                     Intended(LazyGet(res, "meta:intendedToExtend", FALSE, resp)))

Init ==
    /\ ParseIdle
    /\ ResIdle
    /\ ApiIdle
    /\ HeapIdle
    /\ CatalogIdle
    /\ FindIdle

Next ==
    \/ Construct
    \/ RegistryGet
    \/ BehaviorSingleton
    \/ Get
    \/ Delete
    \/ SetTitle
    \/ SetDescription
    \/ Version
    \/ Title
    \/ Description
    \/ Properties
    \/ Definitions
    \/ Extends
    \/ Parent
    \/ IntendedToExtend
    \/ AddFieldGroup

Spec == Init /\ [][Next]_vars

-----------------------------------------------------------------------------
(* SpecDefinitions: a caller holds a Schema made from a document that      *)
(* carries its composition list, and reads its definitions                 *)

\* the local definitions of the documents: two with properties, one without
LocalDefinitions ==
    (<<"f">> :> ("properties" :> ("z" :> "string")))
    @@ (<<"g">> :> ("properties" :> ("x" :> "string")))
    @@ (<<"h">> :> ("type" :> "object"))

EntryNames ==
    {"x", "x again", "y", "plain", "other resource", "#f", "#g", "#h",
     "#missing", "#nested", "#elsewhere", "#f with properties"}

\* the entries an allOf list is made of: inline blocks, an entry without
\* properties, a reference to another resource, and local references, well
\* formed or not
Entry(name) ==
    CASE name = "x" -> ("properties" :> ("x" :> "string"))
      [] name = "x again" -> ("properties" :> ("x" :> "integer"))
      [] name = "y" -> ("properties" :> ("y" :> "string"))
      [] name = "plain" -> ("type" :> "object")
      [] name = "other resource" -> ("$ref" :> ClassRef)
      [] name = "#f" -> ("$ref" :> LocalPrefix \o <<"f">>)
      [] name = "#g" -> ("$ref" :> LocalPrefix \o <<"g">>)
      [] name = "#h" -> ("$ref" :> LocalPrefix \o <<"h">>)
      [] name = "#missing" -> ("$ref" :> LocalPrefix \o <<"missing">>)
      [] name = "#nested" -> ("$ref" :> LocalPrefix \o <<"f", "/", "properties">>)
      [] name = "#elsewhere" -> ("$ref" :> <<"#", "/", "properties", "/", "f">>)
      [] name = "#f with properties" ->
            ("$ref" :> LocalPrefix \o <<"f">>) @@ ("properties" :> ("y" :> "string"))

\* the lists of at most n entry names
RECURSIVE NameLists(_)
NameLists(n) ==
    IF n = 0 THEN {<<>>}
    ELSE NameLists(n - 1)
         \cup {l \o <<e>> : l \in {m \in NameLists(n - 1) : Len(m) = n - 1},
                            e \in EntryNames}

\* the document of the schema _t.schemas.u with the composition list
DocComposed(names) ==
    ("$id" :> CanonicalPrefix \o <<"t", "/", "schemas", "/", "u">>)
    @@ ("meta:altId" :> <<"_", "t", ".", "schemas", ".", "u">>)
    @@ ("allOf" :> [i \in 1..Len(names) |-> Entry(names[i])])
    @@ ("definitions" :> LocalDefinitions)

InitDefinitions ==
    /\ ParseIdle
    /\ ApiIdle
    /\ HeapIdle
    /\ CatalogIdle
    /\ FindIdle
    /\ \E names \in NameLists(MaxAllOf) :
          res = ResourceInit("SCHEMA", [t |-> "dict", v |-> DocComposed(names)])
    /\ op = NoOp
    /\ answer = <<>>

NextDefinitions ==
    \/ Definitions

SpecDefinitions == InitDefinitions /\ [][NextDefinitions]_vars

-----------------------------------------------------------------------------
(* SpecExtends: a caller holds a Schema or a Class made from a document    *)
(* with or without its meta:extends list, and reads extends and behavior   *)

RecordRef == CanonicalPrefix \o <<"xdm", "/", "data", "/", "record">>
MixinRef == CanonicalPrefix \o <<"t", "/", "mixins", "/", "u">>

\* the refs a meta:extends list is made of: a class, two behaviors, a
\* field group, and a ref that does not parse
ExtendsRefs == {ClassRef, BehaviorRef, RecordRef, MixinRef, <<"urn", ":", "x">>}

\* the lists of at most n refs
RECURSIVE RefLists(_)
RefLists(n) ==
    IF n = 0 THEN {<<>>}
    ELSE RefLists(n - 1)
         \cup {l \o <<e>> : l \in {m \in RefLists(n - 1) : Len(m) = n - 1},
                            e \in ExtendsRefs}

\* the documents the Resource is made from: the identifiers with a
\* meta:extends list, or the identifiers alone
ExtendingDocs(r) ==
    {DocMin(r)} \cup {DocMin(r) @@ ("meta:extends" :> l) : l \in RefLists(MaxExtends)}

InitExtends ==
    /\ ParseIdle
    /\ ApiIdle
    /\ HeapIdle
    /\ CatalogIdle
    /\ FindIdle
    /\ \E cls \in {"SCHEMA", "CLASS"} :
          LET r == SchemaRef(<<"_", "t", ".", ResourcePath(cls), ".", "u">>)
          IN  \E doc \in ExtendingDocs(r) :
                 res = ResourceInit(cls, [t |-> "dict", v |-> doc])
    /\ op = NoOp
    /\ answer = <<>>

\* the behavior accessor after self.extends did e
BehaviorEnded(e) ==
    Accessed("behavior", e, IF e.m.ok THEN BehaviorOf(e.m.list) ELSE e.m)

\* Schema.behavior, Class.behavior
Behavior ==
    /\ res.ok
    /\ res.type \in {"SCHEMA", "CLASS"}
    /\ \E resp \in Responses(res) :
        BehaviorEnded(Extended(LazyGet(res, "meta:extends", FALSE, resp)))

NextExtends ==
    \/ Extends
    \/ Behavior

SpecExtends == InitExtends /\ [][NextExtends]_vars

-----------------------------------------------------------------------------
(* SpecCollection: a caller works with one of the collections of the Api   *)

\* all collections Api.__init__ builds (api.py lines 93-108)
ApiCollections ==
    {Collection(c, <<>>) : c \in {None, Some("global"), Some("tenant")}}
    \cup {Collection(c, <<k>>) : c \in {None, Some("global"), Some("tenant")},
                                 k \in {"SCHEMA", "CLASS", "FIELD_GROUP", "DATA_TYPE"}}
    \cup {Collection(None, <<"BEHAVIOR">>)}

\* the document the server sends back for a created resource of a kind
CreatedDoc(kind, title) ==
    DocLow(SchemaRef(CanonicalPrefix \o <<"t", "/", ResourcePath(kind), "/", "new">>), title)

\* how api.request may end for the POST of a create
CreateResponses ==
    {ApiRaise, ApiEmpty}
    \cup {ApiJson(CreatedDoc(k, "A")) : k \in {"SCHEMA", "CLASS", "FIELD_GROUP"}}

\* the bodies _create is called with
CreateBodies ==
    {("title" :> "A"), ("type" :> "object") @@ ("title" :> "B")}

\* the lists passed as field_groups
FieldGroupLists ==
    {<<>>, <<"fg1">>, <<"schema">>, <<"fg1", "fg2">>, <<"fg2", "fg1">>,
     <<"fg1", "schema">>, <<"str">>}

\* the body SchemaCollection.create hands to _create (schema.py lines
\* 332-340)
SchemaBody(title, parent, description, field_groups) ==
    ("type" :> "object") @@ ("title" :> title) @@ ("description" :> description)
    @@ ("allOf" :> [i \in 1..(1 + Len(field_groups)) |->
                       ("$ref" :> IF i = 1 THEN parent.ref ELSE field_groups[i - 1].ref)])

\* SchemaCollection.create that does not look at the kind of the parent
SchemaCreate_anyParent(c, title, parent, description, field_groups, resp) ==
    IF \E i \in 1..Len(field_groups) : ~IsInstance(field_groups[i], "FIELD_GROUP")
    THEN [sent |-> <<>>, answers |-> <<>>, raised |-> TRUE, error |-> "AssertionError",
          value |-> NoResource]
    ELSE IF ~parent.ok
    THEN [sent |-> <<>>, answers |-> <<>>, raised |-> TRUE, error |-> "AttributeError",
          value |-> NoResource]
    ELSE Create(c, SchemaBody(title, parent, description, field_groups), resp)

\* SchemaCollection.create(title, parent, description, field_groups)
\* (schema.py lines 329-340)
SchemaCreate(c, title, parent, description, field_groups, resp) ==
    IF ~IsInstance(parent, "CLASS")
    THEN [sent |-> <<>>, answers |-> <<>>, raised |-> TRUE,
          error |-> "Must inherit from a class", value |-> NoResource]
    ELSE IF \E i \in 1..Len(field_groups) : ~IsInstance(field_groups[i], "FIELD_GROUP")
    THEN [sent |-> <<>>, answers |-> <<>>, raised |-> TRUE, error |-> "AssertionError",
          value |-> NoResource]
    ELSE Create(c, SchemaBody(title, parent, description, field_groups), resp)

InitCollection ==
    /\ ParseIdle
    /\ ResIdle
    /\ ApiIdle
    /\ HeapIdle
    /\ CatalogIdle
    /\ coll \in ApiCollections
    /\ listing = <<>>
    /\ call = [via |-> "findall", full |-> FALSE, query |-> <<>>]
    /\ fpc = "idle"
    /\ ri = 1
    /\ ci = 1
    /\ records = <<>>
    /\ params = <<>>
    /\ results = <<>>
    /\ flog = <<>>

\* what an operation on the collection leaves alone
CollectionFrame ==
    UNCHANGED <<parseVars, heapVars, catalogVars, apiVars, listing, coll, call, fpc, ri, ci, records, params,
                results, flog>>

\* the operation ended with outcome o: the caller keeps the Resource it
\* returned
CollectionEnded(name, a, o) ==
    /\ res' = IF o.raised THEN res ELSE o.value
    /\ answer' = o.answers
    /\ op' = Ended(name, a, o.sent, o.raised, o.error, Some(o.value))

\* collection._create(body)
CreateCall ==
    /\ \E body \in CreateBodies, resp \in CreateResponses :
          CollectionEnded("_create", Some(body), Create(coll, body, resp))
    /\ CollectionFrame

\* schemas.create(title, parent, description, field_groups) on one of the
\* three SchemaCollections
SchemaCreateCall ==
    /\ coll.resources = <<"SCHEMA">>
    /\ \E title \in Titles, parent \in ParentNames, description \in {"", "D"},
          fgs \in FieldGroupLists, resp \in CreateResponses :
          CollectionEnded("create",
                          Some([title |-> title, parent |-> parent,
                                description |-> description, field_groups |-> fgs]),
                          SchemaCreate(coll, title, Object(parent), description,
                                       [i \in 1..Len(fgs) |-> Object(fgs[i])], resp))
    /\ CollectionFrame

\* the identifiers get is called with: of every kind, of both containers,
\* in both notations, and one that does not parse
GetArgs ==
    StrArgs
    \cup {<<"_", "xdm", ".", "context", ".", "profile">>,
          CanonicalPrefix \o <<"xdm", "/", "context", "/", "profile">>,
          <<"_", "t", ".", "classes", ".", "c">>,
          <<"_", "t", ".", "datatypes", ".", "d">>,
          <<"_", "t", ".", "data", ".", "b">>}

\* collection.get(ref)
GetCall ==
    /\ \E x \in GetArgs :
          LET r == CollectionGet(coll, x)
          IN  CollectionEnded("get", Some(x),
                              [sent |-> <<>>, answers |-> <<>>, raised |-> ~r.ok,
                               error |-> IF r.ok THEN "" ELSE r.error,
                               value |-> IF r.ok THEN r ELSE NoResource])
    /\ CollectionFrame

NextCollection ==
    \/ CreateCall
    \/ SchemaCreateCall
    \/ GetCall

SpecCollection == InitCollection /\ [][NextCollection]_vars

-----------------------------------------------------------------------------
(* SpecApi: a caller constructs an Api, selects a sandbox, reads the       *)
(* headers and sends requests                                              *)

\* the config files: two well-formed ones and one without CLIENT_SECRETS
ConfigFile(client) ==
    [CLIENT_ID |-> client, ORG_ID |-> "org@AdobeOrg", CLIENT_SECRETS |-> <<"secret">>,
     SCOPES |-> <<"openid">>, TECHNICAL_ACCOUNT_ID |-> "account"]

Clients == {"client1", "client2"}
Sandboxes == {"prod", "stage"}
Tokens == {"token1", "token2"}

\* the statuses and contents the server answers a request with
Statuses == {200, 204, 302, 404, 500}
Contents == {<<>>, ("results" :> <<>>)}

ApiEnded(name, a, raised, error, value) ==
    [name |-> name, arg |-> a, outcome |-> IF raised THEN "raised" ELSE "returned",
     error |-> error, value |-> IF raised THEN None ELSE value]

\* Api(config_file, verbose, sandbox) with a well-formed config file; the
\* token request of authenticate succeeds or fails with an HTTP error
ApiInit ==
    /\ \E client \in Clients, sandbox \in Sandboxes, verbose \in BOOLEAN,
          token \in Tokens \cup {"HTTPError"} :
        LET cfg == load_config_file(ConfigFile(client))
            failed == ~cfg.ok \/ token = "HTTPError"
        IN  /\ api' = IF failed THEN api
                      ELSE [ok |-> TRUE,
                            attrs |-> ApiAttrs(sandbox, verbose, cfg.config, token)]
            /\ apiOp' = ApiEnded("Api", Some(client), failed,
                                 IF ~cfg.ok THEN cfg.error
                                 ELSE IF failed THEN "HTTPError" ELSE "", None)
    /\ UNCHANGED <<wire, parseVars, heapVars, catalogVars, resVars, findVars>>

\* Api(config_file) with a config file that lacks CLIENT_SECRETS
ApiInitBadConfig ==
    /\ LET file == [CLIENT_ID |-> "client1", ORG_ID |-> "org@AdobeOrg"]
           cfg == load_config_file(file)
       IN  /\ api' = IF cfg.ok THEN [ok |-> TRUE,
                                     attrs |-> ApiAttrs("prod", TRUE, cfg.config, "token1")]
                     ELSE api
           /\ apiOp' = ApiEnded("Api", None, ~cfg.ok, IF cfg.ok THEN "" ELSE cfg.error, None)
    /\ UNCHANGED <<wire, parseVars, heapVars, catalogVars, resVars, findVars>>

\* api.sandbox = sandbox
SetSandbox ==
    /\ api.ok
    /\ \E sandbox \in Sandboxes :
        /\ api' = [api EXCEPT !.attrs = Update(@, ("sandbox" :> sandbox))]
        /\ apiOp' = ApiEnded("sandbox=", Some(sandbox), FALSE, "", None)
    /\ UNCHANGED <<wire, parseVars, heapVars, catalogVars, resVars, findVars>>

\* api.headers
Headers ==
    /\ api.ok
    /\ LET h == ApiHeaders(api)
       IN  apiOp' = ApiEnded("headers", None, ~h.ok, IF h.ok THEN "" ELSE h.error,
                             IF h.ok THEN Some(h.value) ELSE None)
    /\ UNCHANGED <<api, wire, parseVars, heapVars, catalogVars, resVars, findVars>>

\* api.request(method, path, headers=get_accept_header())
ApiRequestCall ==
    /\ api.ok
    /\ Len(wire) < MaxWire
    /\ \E method \in {"GET", "POST", "PATCH", "DELETE"}, status \in Statuses,
          content \in Contents :
        LET path == get_resource_path("tenant", "SCHEMA", None)
            out == ApiRequest(api, method, path, get_accept_header(None, Some("1")),
                              status, content)
        IN  /\ wire' = wire \o out.sent
            /\ apiOp' = ApiEnded("request",
                                 Some([method |-> method, status |-> status,
                                       content |-> content]),
                                 out.raised, out.error, out.value)
    /\ UNCHANGED <<api, parseVars, heapVars, catalogVars, resVars, findVars>>

InitApi ==
    /\ ParseIdle
    /\ ResIdle
    /\ ApiIdle
    /\ HeapIdle
    /\ CatalogIdle
    /\ FindIdle

NextApi ==
    \/ ApiInit
    \/ ApiInitBadConfig
    \/ SetSandbox
    \/ Headers
    \/ ApiRequestCall

SpecApi == InitApi /\ [][NextApi]_vars

-----------------------------------------------------------------------------
(* SpecFindall: a caller lists one collection of the Api with findall; the *)
(* server holds the same listing for every kind and container              *)

\* the collections Api.__init__ builds (api.py lines 93-108), by the
\* arguments of their constructors
Collections ==
    {Collection(None, <<>>),
     Collection(Some("tenant"), <<>>),
     Collection(None, <<"SCHEMA">>),
     Collection(Some("global"), <<"SCHEMA">>),
     Collection(Some("tenant"), <<"FIELD_GROUP">>),
     Collection(None, <<"BEHAVIOR">>)}

\* the keyword arguments of findall, as the list of their items
Queries ==
    {<<>>,
     <<<<"title", "A">>>>,
     <<<<"title", "A">>, <<"meta:abstract", "true">>>>}

\* what self.api.request does with a listing request: it returns the page,
\* raises, or returns None for an empty response
ListingOutcomes == {"page", "raise", "empty"}

Sent(resource, container, request, outcome, page) ==
    [resource |-> resource, container |-> container, request |-> request,
     outcome |-> outcome,
     next |-> IF outcome = "page" /\ "next" \in DOMAIN page["_page"]
              THEN Some(page["_page"]["next"]) ELSE None,
     items |-> IF outcome = "page" THEN page["results"] ELSE <<>>]

InitFind ==
    /\ ParseIdle
    /\ ResIdle
    /\ ApiIdle
    /\ HeapIdle
    /\ CatalogIdle
    /\ listing \in Shapes(MaxPages)
    /\ coll \in Collections
    /\ call = [via |-> "findall", full |-> FALSE, query |-> <<>>]
    /\ fpc = "idle"
    /\ ri = 1
    /\ ci = 1
    /\ records = <<>>
    /\ params = <<>>
    /\ results = <<>>
    /\ flog = <<>>

\* findall(full, **query) is called, by the caller or by find: results = []
\* and the first _paginate starts
StartListing(via) ==
    /\ fpc = "idle"
    /\ \E full \in BOOLEAN, query \in Queries :
          /\ call' = [via |-> via, full |-> full, query |-> query]
          /\ params' = InitialParams(query)
    /\ fpc' = "paging"
    /\ ri' = 1
    /\ ci' = 1
    /\ records' = <<>>
    /\ results' = <<>>
    /\ flog' = <<>>
    /\ UNCHANGED <<listing, coll, parseVars, heapVars, catalogVars, resVars, apiVars>>

\* collection.findall(full, **query)
FindallCall == StartListing("findall")

\* collection.find(full, **params), up to its call of findall
FindCall == StartListing("find")

\* find after findall returned (schema.py lines 189-193)
FindReturn ==
    /\ fpc = "returned"
    /\ call.via = "find"
    /\ LET o == FindOutcome(results)
       IN  /\ fpc' = IF o.ok THEN "found" ELSE "find raised"
           /\ op' = Ended("find", Some(call.query), <<>>, ~o.ok,
                          IF o.ok THEN "" ELSE o.error,
                          IF o.ok THEN Some(o.value) ELSE None)
    /\ UNCHANGED <<res, answer, parseVars, heapVars, catalogVars, apiVars, listing, coll, call, ri, ci, records,
                   params, results, flog>>

\* findall's loops after the _paginate of one kind and container returned
\* recs: the records are wrapped and the next kind and container start
AfterPaginate(resource, recs) ==
    LET w == Wrap(resource, recs)
        lastContainer == ci = Len(Containers(coll))
        lastResource == ri = Len(coll.resources)
    IN  IF ~w.ok
        THEN /\ fpc' = "raised"
             /\ UNCHANGED <<ri, ci, records, params, results>>
        ELSE /\ results' = results \o w.list
             /\ records' = <<>>
             /\ params' = InitialParams(call.query)
             /\ ci' = IF lastContainer THEN 1 ELSE ci + 1
             /\ ri' = IF lastContainer /\ ~lastResource THEN ri + 1 ELSE ri
             /\ fpc' = IF lastContainer /\ lastResource THEN "returned" ELSE "paging"

\* one turn of _paginate's loop: the request, the server's answer and what
\* follows it
PaginateRequest ==
    /\ fpc = "paging"
    /\ LET resource == coll.resources[ri]
           container == Containers(coll)[ci]
           request == ListingRequest(container, resource, call.full, params)
           page == ServedPage(listing, resource, container, params)
           turn == PaginateTurn(records, params, page)
       IN  \/ \E outcome \in ListingOutcomes \ {"page"} :
                 /\ flog' = Append(flog, Sent(resource, container, request, outcome, page))
                 /\ fpc' = "raised"
                 /\ UNCHANGED <<ri, ci, records, params, results>>
           \/ /\ flog' = Append(flog, Sent(resource, container, request, "page", page))
              /\ IF turn.more
                 THEN /\ records' = turn.records
                      /\ params' = turn.params
                      /\ UNCHANGED <<fpc, ri, ci, results>>
                 ELSE AfterPaginate(resource, turn.records)
    /\ UNCHANGED <<listing, coll, call, parseVars, heapVars, catalogVars, resVars, apiVars>>

NextFind ==
    \/ FindallCall
    \/ FindCall
    \/ PaginateRequest
    \/ FindReturn

SpecFindall == InitFind /\ [][NextFind]_vars

\* the schemas of the tenant, and the schemas of both containers
InitPaginate ==
    /\ InitFind
    /\ coll \in {Collection(Some("tenant"), <<"SCHEMA">>), Collection(None, <<"SCHEMA">>)}

\* the listing of the schemas with a caller that runs on and a server that
\* answers: a request of _paginate's loop that can be sent is sent, and
\* find goes on after findall returned
SpecPaginate ==
    /\ InitPaginate
    /\ [][NextFind]_vars
    /\ WF_vars(PaginateRequest)
    /\ WF_vars(FindReturn)

-----------------------------------------------------------------------------
(* SpecObjects: a caller obtains Resource objects for a schema, its class   *)
(* and its behavior from the library and works with them. A dict is an      *)
(* object with an address; a Resource object names the dict of its body     *)
(* attribute by that address, and dict.update changes the dict in place     *)

MaxHeld == 2

\* the tenant collection of schemas, api.schemas and the registry (api.py
\* lines 93-108)
TenantSchemas == Collection(Some("tenant"), <<"SCHEMA">>)

\* the schema the caller works with, in both notations
SchemaId == <<"_", "t", ".", "schemas", ".", "u">>
SchemaUrl == CanonicalPrefix \o <<"t", "/", "schemas", "/", "u">>

TheSchema == ResourceInit("SCHEMA", [t |-> "str", v |-> SchemaId])

\* the documents the server holds for the Resource r: those of a schema
\* name its class
EntityDoc(r, title) ==
    IF r.type = "SCHEMA" THEN DocLow(r, title) @@ ("meta:class" :> ClassRef)
    ELSE DocLow(r, title)

\* what api.request does with a request for the Resource r while the
\* server holds it under the title t
EntityResponses(r, t) == {ApiRaise, ApiJson(EntityDoc(r, t))}

\* the place of a dict that no object names any more
Freed == ("$freed" :> TRUE)

\* a new dict object holding d: a dict literal, or a dict of r.json()
\* (api.py lines 209-210); it takes the lowest address that is free
Alloc(hp, d) ==
    LET free == {a \in 1..Len(hp) : hp[a] = Freed}
        at == IF free = {} THEN Len(hp) + 1
              ELSE CHOOSE a \in free : \A b \in free : a <= b
    IN  [at |-> at,
         heap |-> IF free = {} THEN Append(hp, d) ELSE [hp EXCEPT ![at] = d]]

\* the dicts left when an operation has returned to a caller holding the
\* Resources hs: a dict stays while the body attribute of a held Resource
\* names it (self.body = body is the one reference the library keeps)
Collect(hp, hs) ==
    LET used == {hs[i].at : i \in 1..Len(hs)}
        top == IF used = {} THEN 0 ELSE CHOOSE a \in used : \A b \in used : b <= a
    IN  [a \in 1..top |-> IF a \in used THEN hp[a] ELSE Freed]

\* the dict objects of a parsed response: one for the document
Decode(hp, resp) ==
    IF resp.kind = "json" THEN Alloc(hp, resp.doc) ELSE [at |-> 0, heap |-> hp]

\* the Resource object with the dict at its address as body
Live(hp, h) == [h.obj EXCEPT !.body = hp[h.at]]

\* the Resource object r (or the exception r), made from body, with the
\* dict of an earlier Resource of the same $id when there is one
Placed_interned(hp, r, body, at) ==
    IF ~r.ok THEN [ok |-> FALSE, error |-> r.error, heap |-> hp]
    ELSE IF body.t = "dict"
    THEN [ok |-> TRUE, obj |-> [r EXCEPT !.body = <<>>], at |-> at, heap |-> hp]
    ELSE IF \E a \in 1..Len(hp) : "$id" \in DOMAIN hp[a] /\ hp[a]["$id"] = r.ref
    THEN [ok |-> TRUE, obj |-> [r EXCEPT !.body = <<>>],
          at |-> CHOOSE a \in 1..Len(hp) : "$id" \in DOMAIN hp[a] /\ hp[a]["$id"] = r.ref,
          heap |-> hp]
    ELSE [ok |-> TRUE, obj |-> [r EXCEPT !.body = <<>>],
          at |-> Alloc(hp, ("$id" :> r.ref)).at,
          heap |-> Alloc(hp, ("$id" :> r.ref)).heap]

\* the Resource object r (or the exception r), made from body: for a str
\* or a SchemaRef self.body is the new dict { '$id': ref.ref } (schema.py
\* lines 689-694); for a dict it is the dict handed in, at its address
\* (lines 695-696, 700)
Placed(hp, r, body, at) ==
    IF ~r.ok THEN [ok |-> FALSE, error |-> r.error, heap |-> hp]
    ELSE IF body.t = "dict"
    THEN [ok |-> TRUE, obj |-> [r EXCEPT !.body = <<>>], at |-> at, heap |-> hp]
    ELSE [ok |-> TRUE, obj |-> [r EXCEPT !.body = <<>>],
          at |-> Alloc(hp, ("$id" :> r.ref)).at,
          heap |-> Alloc(hp, ("$id" :> r.ref)).heap]

\* a constructor that takes the dict of an earlier Resource of the same $id
NewObject_interned(hp, cls, body, at) == Placed_interned(hp, ResourceInit(cls, body), body, at)

\* Resource.__init__(api, body) with the dicts as objects (schema.py lines
\* 688-708); at is the address of body when body is a dict
NewObject(hp, cls, body, at) == Placed(hp, ResourceInit(cls, body), body, at)

Handle(n) == [obj |-> n.obj, at |-> n.at]

\* ref.init(self.api) of the parsed reference sr, or its exception
RefObject(hp, sr) ==
    IF sr.ok THEN NewObject(hp, sr.resource, [t |-> "SchemaRef", v |-> sr], 0)
    ELSE [ok |-> FALSE, error |-> sr.error, heap |-> hp]

\* ResourceCollection.get after ref = SchemaRef(ref) (schema.py lines
\* 165-166)
GotObject(hp, c, sr) ==
    IF sr.ok /\ sr.resource \notin Allowed(c)
    THEN [ok |-> FALSE, error |-> "AssertionError", heap |-> hp]
    ELSE RefObject(hp, sr)

\* ResourceCollection.get(ref) (schema.py lines 164-166)
GetObject(hp, c, x) == GotObject(hp, c, SchemaRef(x))

\* a list of Resource objects with one more in front
Prepend(first, rest) ==
    IF ~rest.ok THEN rest
    ELSE [ok |-> TRUE, list |-> <<Handle(first)>> \o rest.list, heap |-> rest.heap]

RECURSIVE WrapObjects(_, _, _)

\* the loop of findall after the first record was wrapped
WrapNext(first, resource, recs) ==
    IF ~first.ok THEN first
    ELSE Prepend(first, WrapObjects(first.heap, resource, recs))

\* resource._class(self.api, record) for the record rec parsed into the
\* dict d
Recorded(d, resource, rec) == NewObject(d.heap, resource, [t |-> "dict", v |-> rec], d.at)

\* resource._class(self.api, record) for every record of the parsed
\* listing (schema.py lines 240-241), each record a dict of its own
WrapObjects(hp, resource, recs) ==
    IF recs = <<>> THEN [ok |-> TRUE, list |-> <<>>, heap |-> hp]
    ELSE WrapNext(Recorded(Alloc(hp, Head(recs)), resource, Head(recs)),
                  resource, Tail(recs))

RECURSIVE InitObjects(_, _)

\* the loop of extends after the first reference was initialised
InitNext(first, refs) ==
    IF ~first.ok THEN first
    ELSE Prepend(first, InitObjects(first.heap, refs))

\* SchemaRef(ref).init(self.api) for every ref of a list (schema.py lines
\* 798-799)
InitObjects(hp, refs) ==
    IF refs = <<>> THEN [ok |-> TRUE, list |-> <<>>, heap |-> hp]
    ELSE InitNext(RefObject(hp, SchemaRef(Head(refs))), Tail(refs))

\* how an operation of the caller ended: its name, the place in held of
\* the Resource it was called on (0 for a collection), and whether it
\* returned or raised
Called(name, i, raised) ==
    [name |-> name, arg |-> i, outcome |-> IF raised THEN "raised" ELSE "returned"]

InitObjectsSpec ==
    /\ ParseIdle
    /\ ResIdle
    /\ ApiIdle
    /\ HeapIdle
    /\ CatalogIdle
    /\ FindIdle

ObjectsFrame == UNCHANGED <<res, answer, parseVars, apiVars, findVars, catalogVars>>

\* an operation returned to the caller, who now holds the Resources hs;
\* hp are the dicts when it returned
Obtained(name, i, hp, hs, raised) ==
    /\ heap' = Collect(hp, hs)
    /\ held' = hs
    /\ op' = Called(name, i, raised)
    /\ ObjectsFrame

\* the caller keeps the Resource n, if the operation returned one
Appended(name, n) ==
    Obtained(name, 0, n.heap, IF n.ok THEN Append(held, Handle(n)) ELSE held, ~n.ok)

\* the caller calls get of the registry or of api.schemas and keeps the
\* Resource
ObtainGet ==
    /\ Len(held) < MaxHeld
    /\ \E c \in {Collection(None, <<>>), TenantSchemas}, x \in {SchemaId, SchemaUrl, ClassRef} :
        Appended("collection get", GetObject(heap, c, x))

\* findall returned the list w, or raised while wrapping
Listed(w) ==
    Obtained("findall", 0, w.heap, IF w.ok THEN held \o w.list ELSE held, ~w.ok)

\* the one page the server lists the schema on
SchemaPage == [results |-> <<EntityDoc(TheSchema, "A")>>, _page |-> [next |-> None]]

\* the caller calls api.schemas.findall(), the server answers with one
\* page, and the caller keeps the Resources of the list
ObtainFindall ==
    /\ Len(held) < MaxHeld
    /\ \E outcome \in {"page", "raise"} :
        IF outcome = "raise" THEN Obtained("findall", 0, heap, held, TRUE)
        ELSE Listed(WrapObjects(heap, "SCHEMA",
                                PaginateTurn(<<>>, InitialParams(<<>>), SchemaPage).records))

\* _create ended with o; d is the dict of the parsed response and n the
\* Resource made of it
Created(o, d, n) ==
    Obtained("_create", 0, IF o.sent = <<>> THEN heap ELSE d.heap,
             IF o.raised THEN held ELSE Append(held, Handle(n)), o.raised)

CreatedFrom(o, d, resp) == Created(o, d, NewObject(d.heap, "SCHEMA", Returned(resp), d.at))

\* the caller calls api.schemas._create(body) and keeps the Resource
ObtainCreate ==
    /\ Len(held) < MaxHeld
    /\ \E resp \in EntityResponses(TheSchema, "A") :
        CreatedFrom(Create(TenantSchemas, ("title" :> "A"), resp), Decode(heap, resp), resp)

\* what the caller holds after an accessor of its i-th Resource returned
\* the Resource h: both, or h in the place of the i-th (x = x.parent)
Kept(i, h, both) == IF both THEN Append(held, h) ELSE [held EXCEPT ![i] = h]

\* the dicts after the body of the Resource h was updated in place to b
Updated(hp, h, b) == [hp EXCEPT ![h.at] = b]

\* Schema.parent after its lazy get ended with f (schema.py line 831)
ParentObject(hp, f) ==
    IF f.raised THEN [ok |-> FALSE, error |-> f.error, heap |-> hp]
    ELSE IF "meta:class" \notin DOMAIN f.body
    THEN [ok |-> FALSE, error |-> "KeyError", heap |-> hp]
    ELSE NewObject(hp, "CLASS", [t |-> "str", v |-> f.body["meta:class"]], 0)

ParentEnded(i, both, n) ==
    Obtained("parent", i, n.heap, IF n.ok THEN Kept(i, Handle(n), both) ELSE held, ~n.ok)

ParentFetched(i, both, f) ==
    ParentEnded(i, both, ParentObject(Updated(heap, held[i], f.body), f))

\* Schema.parent of a held schema (schema.py lines 827-831): the caller
\* keeps the Class
ObtainParent ==
    \E i \in 1..Len(held), both \in BOOLEAN :
        /\ both => Len(held) < MaxHeld
        /\ held[i].obj.type = "SCHEMA"
        /\ \E resp \in EntityResponses(held[i].obj, "A") :
            ParentFetched(i, both, LazyGet(Live(heap, held[i]), "meta:class", TRUE, resp))

\* Resource.extends of the Resource h after its lazy get ended with f
\* (schema.py lines 795-800)
ExtendsObjects(h, f) ==
    IF f.raised
    THEN [ok |-> FALSE, error |-> f.error, heap |-> Updated(heap, h, f.body), list |-> <<>>]
    ELSE InitObjects(Updated(heap, h, SetDefault(f.body, "meta:extends", <<>>)),
                     SetDefault(f.body, "meta:extends", <<>>)["meta:extends"])

FirstKept(i, both, n) ==
    Obtained("extends", i, n.heap,
             IF n.ok /\ Len(n.list) > 0 THEN Kept(i, n.list[1], both) ELSE held, ~n.ok)

\* Resource.extends of a held Resource (schema.py lines 792-800): the
\* caller keeps the first Resource of the list
ObtainExtends ==
    \E i \in 1..Len(held), both \in BOOLEAN :
        /\ both => Len(held) < MaxHeld
        /\ \E resp \in EntityResponses(held[i].obj, "A") :
            FirstKept(i, both,
                      ExtendsObjects(held[i],
                                     LazyGet(Live(heap, held[i]), "meta:extends", FALSE, resp)))

\* an operation of a held Resource that ends with the outcome f of its
\* request: the dict of its body is updated in place
Acted(name, i, f) ==
    /\ heap' = [heap EXCEPT ![held[i].at] = f.body]
    /\ held' = held
    /\ op' = Called(name, i, f.raised)
    /\ ObjectsFrame

\* get() of a held Resource
ObjectGet ==
    \E i \in 1..Len(held) :
        \E resp \in EntityResponses(held[i].obj, "A") :
            Acted("get", i, Request(Live(heap, held[i]), "GET", TRUE, None, resp))

\* title = "B" of a held Resource; the server answers with the new title
ObjectSetTitle ==
    \E i \in 1..Len(held) :
        \E resp \in EntityResponses(held[i].obj, "B") :
            Acted("title=", i,
                  Request(Live(heap, held[i]), "PATCH", FALSE,
                          Some(ReplaceOp(<<"/", "title">>, "B")), resp))

\* the title accessor of a held Resource
ObjectTitle ==
    \E i \in 1..Len(held) :
        \E resp \in EntityResponses(held[i].obj, "A") :
            LET f == LazyGet(Live(heap, held[i]), "title", FALSE, resp)
                missing == ~f.raised /\ "title" \notin DOMAIN f.body
            IN  Acted("title", i,
                      [f EXCEPT !.raised = f.raised \/ missing,
                                !.error = IF missing THEN "KeyError" ELSE f.error])

NextObjects ==
    \/ ObtainGet
    \/ ObtainFindall
    \/ ObtainCreate
    \/ ObtainParent
    \/ ObtainExtends
    \/ ObjectGet
    \/ ObjectSetTitle
    \/ ObjectTitle

SpecObjects == InitObjectsSpec /\ [][NextObjects]_vars

-----------------------------------------------------------------------------
(* SpecCatalog: a caller holds one Batch of the catalog, and fetches and   *)
(* deletes it                                                              *)

\* the statuses on which Batch.delete aborts (datasets.py line 485)
InFlight == {"loading", "processing", "queued", "retrying", "staging"}

\* the statuses the server reports: those in flight, settled ones, and one
\* the library does not know
BatchStatuses == InFlight \cup {"success", "failed", "aborted", "inactive", "paused"}

ImportPath(id) == <<"/data/foundation/import/batches/", id>>
CatalogPath(id) == <<"/data/foundation/catalog/batches/", id>>
DataSetsPath == <<"/data/foundation/catalog/dataSets">>
DataSetPath(id) == <<"/data/foundation/catalog/dataSets/", id>>

\* the arguments of one call of api.request
ApiCall(method, path, p, json) ==
    [method |-> method, path |-> path, params |-> p, json |-> json]

\* what the server holds of the Batch: a document of the Batch with a
\* status or without one, or a document of something else
BatchDocs(id) ==
    {(id :> ("status" :> s)) : s \in BatchStatuses}
    \cup {(id :> ("version" :> "1.0.0")), ("other" :> ("status" :> "success"))}

\* what api.request does with a request about the Batch
BatchResponses(id) == {ApiRaise, ApiEmpty} \cup {ApiJson(d) : d \in BatchDocs(id)}

\* Batch.get and DataSet.get (datasets.py lines 460-469 and 293-299) of the
\* object o whose document is at path, when api.request answers with resp
CatalogGet(o, path, resp) ==
    [sent |-> <<ApiCall("GET", path, <<>>, None)>>,
     answers |-> <<resp>>,
     raised |-> resp.kind # "json" \/ o.id \notin DOMAIN resp.doc,
     error |-> IF resp.kind = "raise" THEN "HTTPError"
               ELSE IF resp.kind = "none" THEN "TypeError"
               ELSE IF o.id \notin DOMAIN resp.doc THEN "AssertionError"
               ELSE "",
     body |-> IF resp.kind = "json" /\ o.id \in DOMAIN resp.doc
              THEN Some(Update(IF o.body = None THEN <<>> ELSE o.body[1], resp.doc[o.id]))
              ELSE o.body]

\* the body property (datasets.py lines 488-492 and 204-208): the object is
\* fetched when its _body is None
CatalogBody(o, path, resp) ==
    IF o.body = None THEN CatalogGet(o, path, resp)
    ELSE [sent |-> <<>>, answers |-> <<>>, raised |-> FALSE, error |-> "", body |-> o.body]

\* Batch.status (datasets.py lines 434-436) on the body b: body.get('status')
BatchStatus(b) == IF "status" \in DOMAIN b THEN Some(b["status"]) ELSE None

\* the action aborting whatever has not failed
DeleteAction_abortUnsettled(status) ==
    IF status # None /\ status[1] \in {"success", "failed", "aborted", "inactive"}
    THEN "REVERT" ELSE "ABORT"

\* the action Batch.delete chooses (datasets.py line 485)
DeleteAction(status) ==
    IF status # None /\ status[1] \in InFlight THEN "ABORT" ELSE "REVERT"

\* Batch.delete after the status was read with f (datasets.py lines
\* 484-486), when api.request answers the import request with resp
Deleted(f, resp) ==
    IF f.raised THEN f
    ELSE [sent |-> f.sent \o <<ApiCall("POST", ImportPath(batch.id),
                                       ("action" :> DeleteAction(BatchStatus(f.body[1]))),
                                       None)>>,
          answers |-> f.answers \o <<resp>>,
          raised |-> resp.kind = "raise",
          error |-> IF resp.kind = "raise" THEN "HTTPError" ELSE "",
          body |-> f.body]

\* the caller's Batch after an operation that ended with f
BatchEnded(name, f) ==
    /\ batch' = [batch EXCEPT !.body = f.body]
    /\ answer' = f.answers
    /\ op' = Ended(name, None, f.sent, f.raised, f.error, None)
    /\ UNCHANGED <<res, dataset, given, parseVars, heapVars, apiVars, findVars>>

\* batch.get()
BatchGet ==
    \E resp \in BatchResponses(batch.id) :
        BatchEnded("Batch.get", CatalogGet(batch, CatalogPath(batch.id), resp))

\* batch.delete()
BatchDelete ==
    \E resp \in BatchResponses(batch.id), done \in {ApiRaise, ApiEmpty} :
        BatchEnded("Batch.delete",
                   Deleted(CatalogBody(batch, CatalogPath(batch.id), resp), done))

\* api.batches.get(id): a new Batch object for the same batch
BatchCollectionGet ==
    /\ batch' = NewBatch(batch.id)
    /\ answer' = <<>>
    /\ op' = Ended("BatchCollection.get", None, <<>>, FALSE, "", None)
    /\ UNCHANGED <<res, dataset, given, parseVars, heapVars, apiVars, findVars>>

\* an argument value by its Python type and its content
Value(t, v) == [t |-> t, v |-> v]
Str(x) == Value("str", <<x>>)

\* isinstance(v, cls) for the builtin types; a bool is an int
IsValue(v, cls) ==
    CASE cls = "int" -> v.t \in {"int", "bool"}
      [] cls = "list" -> v.t \in {"list", "list of int"}
      [] OTHER -> v.t = cls

\* normalize_str_list (datasets.py lines 22-28)
normalize_str_list(v) ==
    IF IsValue(v, "str") THEN [ok |-> TRUE, value |-> Value("list", v.v)]
    ELSE IF ~IsValue(v, "list") THEN Raise("AssertionError")
    ELSE IF v.t = "list of int" THEN Raise("AssertionError")
    ELSE [ok |-> TRUE, value |-> v]

\* file_description()[k] = v (datasets.py lines 17-20): fileDescription
\* starts as {'format': ''}
WithFile(body, k, v) ==
    Update(body, ("fileDescription" :>
                     Update(IF "fileDescription" \in DOMAIN body
                            THEN body["fileDescription"] ELSE ("format" :> Str("")),
                            (k :> v))))

\* body[k] = v when v is a cls, else the failed assertion
Typed(body, k, v, cls) ==
    IF IsValue(v, cls) THEN [ok |-> TRUE, value |-> Update(body, (k :> v))]
    ELSE Raise("AssertionError")

\* file_description()[k] = normalize_str_list(v)
Listed_file(body, k, n) ==
    IF n.ok THEN [ok |-> TRUE, value |-> WithFile(body, k, n.value)] ELSE n

XedContentType == Str("application/vnd.adobe.xed+json;version=1")

\* the branches of the loop with a format branch that tests its value
FormStep_formatAccepted(body, k, v) ==
    CASE k \in {"name", "description"} -> Typed(body, k, v, "str")
      [] k = "tags" -> Raise("UnboundLocalError")
      [] k = "enableErrorDiagnostics" -> Typed(body, k, v, "bool")
      [] k = "observableSchema" -> Typed(body, k, v, "dict")
      [] k = "format" ->
            IF IsValue(v, "str")
            THEN [ok |-> TRUE, value |-> WithFile(body, k, v)]
            ELSE Raise("AssertionError")
      [] k \in {"delimiters", "quotes", "escapes", "nullMarkers"} ->
            Listed_file(body, k, normalize_str_list(v))
      [] k = "header" ->
            IF IsValue(v, "bool")
            THEN [ok |-> TRUE, value |-> WithFile(body, k, v)]
            ELSE Raise("AssertionError")
      [] k = "charset" ->
            IF IsValue(v, "str")
            THEN [ok |-> TRUE, value |-> WithFile(body, k, v)]
            ELSE Raise("AssertionError")
      [] k = "schema" ->
            IF v.t = "schema"
            THEN [ok |-> TRUE,
                  value |-> Update(body, ("schemaRef" :>
                                (("id" :> Value("str", v.v))
                                 @@ ("contentType" :> XedContentType))))]
            ELSE Raise("AttributeError")
      [] k = "dataSourceId" -> Typed(body, k, v, "int")

\* the branches of the loop of form_dataset_body for the argument k with
\* the value v, not None (datasets.py lines 30-69). The tags branch reads
\* the local name tags before it is bound; the format branch tests the
\* builtin function format, which is no str
FormStep(body, k, v) ==
    CASE k \in {"name", "description"} -> Typed(body, k, v, "str")
      [] k = "tags" -> Raise("UnboundLocalError")
      [] k = "enableErrorDiagnostics" -> Typed(body, k, v, "bool")
      [] k = "observableSchema" -> Typed(body, k, v, "dict")
      [] k = "format" -> Raise("AssertionError")
      [] k \in {"delimiters", "quotes", "escapes", "nullMarkers"} ->
            Listed_file(body, k, normalize_str_list(v))
      [] k = "header" ->
            IF IsValue(v, "bool")
            THEN [ok |-> TRUE, value |-> WithFile(body, k, v)]
            ELSE Raise("AssertionError")
      [] k = "charset" ->
            IF IsValue(v, "str")
            THEN [ok |-> TRUE, value |-> WithFile(body, k, v)]
            ELSE Raise("AssertionError")
      [] k = "schema" ->
            IF v.t = "schema"
            THEN [ok |-> TRUE,
                  value |-> Update(body, ("schemaRef" :>
                                (("id" :> Value("str", v.v))
                                 @@ ("contentType" :> XedContentType))))]
            ELSE Raise("AttributeError")
      [] k = "dataSourceId" -> Typed(body, k, v, "int")

\* form_dataset_body(**kwargs) from the i-th argument on, with the body
\* built so far (datasets.py lines 14-70)
RECURSIVE FormFrom(_, _, _)
FormFrom(kwargs, i, body) ==
    IF i > Len(ArgOrder) THEN [ok |-> TRUE, value |-> body]
    ELSE IF kwargs[ArgOrder[i]] = None THEN FormFrom(kwargs, i + 1, body)
    ELSE IF ~FormStep(body, ArgOrder[i], kwargs[ArgOrder[i]][1]).ok
    THEN FormStep(body, ArgOrder[i], kwargs[ArgOrder[i]][1])
    ELSE FormFrom(kwargs, i + 1, FormStep(body, ArgOrder[i], kwargs[ArgOrder[i]][1]).value)

form_dataset_body(kwargs) == FormFrom(kwargs, 1, <<>>)

\* the values a caller passes for the argument k: of the documented type
\* and of another one
ArgValues(k) ==
    CASE k = "name" -> {Str("n"), Value("int", <<"7">>)}
      [] k = "description" -> {Str("text")}
      [] k = "tags" -> {Value("dict", <<"{'a': 'b'}">>), Str("a")}
      [] k = "enableErrorDiagnostics" -> {Value("bool", <<"True">>), Str("yes")}
      [] k = "observableSchema" -> {Value("dict", <<"{}">>)}
      [] k = "format" -> {Str("csv"), Str("")}
      [] k = "delimiters" ->
            {Str(","), Value("list", <<",", ";">>), Value("list of int", <<"1">>)}
      [] k = "quotes" -> {Str("'")}
      [] k = "escapes" -> {Value("list", <<"\\">>)}
      [] k = "nullMarkers" -> {Str("null")}
      [] k = "header" -> {Value("bool", <<"True">>), Value("int", <<"1">>)}
      [] k = "charset" -> {Str("UTF-8")}
      [] k = "schema" -> {Value("schema", OtherRef), Str("x")}
      [] k = "dataSourceId" -> {Value("int", <<"7">>), Value("bool", <<"True">>), Str("7")}

\* the calls with at most n arguments that are not None
RECURSIVE Kwargs(_)
Kwargs(n) ==
    IF n = 0 THEN {[k \in ArgNames |-> None]}
    ELSE Kwargs(n - 1)
         \cup UNION {{[f EXCEPT ![k] = Some(v)] : v \in ArgValues(k)} :
                        f \in Kwargs(n - 1), k \in ArgNames}

\* what the server holds of the DataSet
DataSetDocs(id) ==
    {(id :> ("name" :> "n")), (id :> ("name" :> "m") @@ ("version" :> "1.0.0")),
     ("other" :> ("name" :> "n"))}

DataSetResponses(id) == {ApiRaise, ApiEmpty} \cup {ApiJson(d) : d \in DataSetDocs(id)}

\* the answers to the POST of a new DataSet: the list of its id, and lists
\* parse_id_list refuses
DataSetCreated ==
    {ApiRaise, ApiEmpty, ApiJson(<<>>), ApiJson(<< <<"@/dataSets/", "e">> >>),
     ApiJson(<< <<"@/dataSets/", "d">> >>), ApiJson(<< <<"e">> >>),
     ApiJson(<< <<"@/dataSets/", "d">>, <<"@/dataSets/", "e">> >>)}

\* parse_id_list (datasets.py lines 9-12)
parse_id_list(ids) ==
    IF Len(ids) # 1 THEN Raise("AssertionError")
    ELSE IF ~StartsWith(ids[1], <<"@/dataSets/">>) THEN Raise("AssertionError")
    ELSE [ok |-> TRUE, value |-> ids[1][2]]

\* DatasetCollection.create after form_dataset_body ended with b, when
\* api.request answers with resp (datasets.py lines 186-187)
CreateOutcome_dataset(b, resp) ==
    IF ~b.ok THEN [sent |-> <<>>, answers |-> <<>>, raised |-> TRUE, error |-> b.error,
                   made |-> dataset]
    ELSE [sent |-> <<ApiCall("POST", DataSetsPath, None, Some(b.value))>>,
          answers |-> <<resp>>,
          raised |-> resp.kind # "json" \/ ~parse_id_list(resp.doc).ok,
          error |-> IF resp.kind = "raise" THEN "HTTPError"
                    ELSE IF resp.kind = "none" THEN "TypeError"
                    ELSE IF ~parse_id_list(resp.doc).ok THEN "AssertionError"
                    ELSE "",
          made |-> IF resp.kind = "json" /\ parse_id_list(resp.doc).ok
                   THEN NewDataSet(parse_id_list(resp.doc).value)
                   ELSE dataset]

\* DataSet.update after form_dataset_body ended with b, when api.request
\* answers the PATCH with resp and the GET with got (datasets.py lines
\* 355-357)
UpdateOutcome(b, resp, got) ==
    IF ~b.ok THEN [sent |-> <<>>, answers |-> <<>>, raised |-> TRUE, error |-> b.error,
                   made |-> dataset]
    ELSE IF resp.kind = "raise"
    THEN [sent |-> <<ApiCall("PATCH", DataSetPath(dataset.id), None, Some(b.value))>>,
          answers |-> <<resp>>, raised |-> TRUE, error |-> "HTTPError", made |-> dataset]
    ELSE [sent |-> <<ApiCall("PATCH", DataSetPath(dataset.id), None, Some(b.value))>>
                   \o CatalogGet(dataset, DataSetPath(dataset.id), got).sent,
          answers |-> <<resp, got>>,
          raised |-> CatalogGet(dataset, DataSetPath(dataset.id), got).raised,
          error |-> CatalogGet(dataset, DataSetPath(dataset.id), got).error,
          made |-> [dataset EXCEPT
                      !.body = CatalogGet(dataset, DataSetPath(dataset.id), got).body]]

\* the caller's DataSet after a call ended with f
DataSetEnded(name, f) ==
    /\ dataset' = f.made
    /\ answer' = f.answers
    /\ op' = Ended(name, None, f.sent, f.raised, f.error, None)
    /\ UNCHANGED <<res, batch, given, parseVars, heapVars, apiVars, findVars>>

\* api.datasets.create(schema, name, ...)
DatasetCreate ==
    \E resp \in DataSetCreated :
        DataSetEnded("DatasetCollection.create",
                     CreateOutcome_dataset(form_dataset_body(given), resp))

\* dataset.update(name, ...)
DatasetUpdate ==
    \E resp \in {ApiRaise, ApiEmpty}, got \in DataSetResponses(dataset.id) :
        DataSetEnded("DataSet.update",
                     UpdateOutcome(form_dataset_body(given), resp, got))

\* dataset.get()
DatasetGet ==
    \E got \in DataSetResponses(dataset.id) :
        DataSetEnded("DataSet.get",
                     [sent |-> CatalogGet(dataset, DataSetPath(dataset.id), got).sent,
                      answers |-> <<got>>,
                      raised |-> CatalogGet(dataset, DataSetPath(dataset.id), got).raised,
                      error |-> CatalogGet(dataset, DataSetPath(dataset.id), got).error,
                      made |-> [dataset EXCEPT
                                  !.body = CatalogGet(dataset, DataSetPath(dataset.id), got).body]])

InitCatalog ==
    /\ ParseIdle
    /\ ResIdle
    /\ ApiIdle
    /\ HeapIdle
    /\ FindIdle
    /\ CatalogIdle

NextCatalog ==
    \/ BatchGet
    \/ BatchDelete
    \/ BatchCollectionGet

SpecCatalog == InitCatalog /\ [][NextCatalog]_vars

-----------------------------------------------------------------------------
(* SpecDataSet: a caller holds one DataSet of the catalog, and creates and *)
(* updates DataSets with one choice of keyword arguments                   *)

InitDataSet ==
    /\ ParseIdle
    /\ ResIdle
    /\ ApiIdle
    /\ HeapIdle
    /\ FindIdle
    /\ batch = NewBatch("b")
    /\ dataset = NewDataSet("d")
    /\ given \in Kwargs(MaxGiven)

NextDataSet ==
    \/ DatasetCreate
    \/ DatasetUpdate
    \/ DatasetGet

SpecDataSet == InitDataSet /\ [][NextDataSet]_vars

-----------------------------------------------------------------------------
(* The identifiers that are parsed *)

Schemes == {<<"https", "://">>, <<"http", "://">>}

\* a scheme, with or without the ns.adobe.com host
UrlPrefixes == {s \o h : s \in Schemes, h \in {<<>>, NS_HOST \o <<"/">>}}

\* the segments of the identifiers of tenant shape <t>.<k>.<u>; a segment
\* may be empty or hold the separator of the other notation
TenantSegs == {<<"t">>, <<"xdm">>}
KindSegs == {<<a>> : a \in Aliases} \cup {<<"context">>, <<"schema">>}
UuidSegs == {<<"u">>, <<"adhoc">>, <<"weather">>, <<>>,
             <<"a", ".", "b">>, <<"a", "/", "b">>}

TenantShaped ==
    UNION {    {<<"_">> \o Join(<<t, k, u>>, "."), Join(<<t, k, u>>, ".")}
          \cup {p \o Join(<<t, k, u>>, "/") : p \in UrlPrefixes}
          : t \in TenantSegs, k \in KindSegs, u \in UuidSegs}

\* free-form identifiers: up to MaxSegs segments in either notation, or
\* without any prefix
FreeSegs == {<<"xdm">>, <<"data">>, <<"adhoc">>, <<"t">>, <<>>}

RECURSIVE SegLists(_)
SegLists(n) ==
    IF n = 0 THEN {<<>>}
    ELSE LET shorter == SegLists(n - 1)
         IN  shorter \cup {<<s>> \o l : s \in FreeSegs,
                                       l \in {m \in shorter : Len(m) = n - 1}}

FreeForm ==
    UNION {    {<<"_">> \o Join(l, "."), Join(l, "."), Join(l, "/")}
          \cup {p \o Join(l, "/") : p \in UrlPrefixes}
          : l \in SegLists(MaxSegs)}

\* every way of writing a key with "/" in the place of some of its dots
RECURSIVE PathForms(_)
PathForms(k) ==
    IF k = <<>> THEN {<<>>}
    ELSE IF Head(k) = "."
    THEN {<<c>> \o r : c \in {".", "/"}, r \in PathForms(Tail(k))}
    ELSE {<<Head(k)>> \o r : r \in PathForms(Tail(k))}

\* the identifiers of the entries of the global table: the short id, the
\* URL forms and the canonical ref of the entry
GlobalForms ==
    UNION {    {<<"_">> \o k, GLOBAL_RESOURCES[k][2]}
          \cup {p \o f : p \in UrlPrefixes, f \in PathForms(k)}
          : k \in DOMAIN GLOBAL_RESOURCES}

Identifiers == TenantShaped \cup FreeForm \cup GlobalForms

-----------------------------------------------------------------------------
(* SpecParse: a caller parses an identifier, then parses the short id and  *)
(* the canonical ref of the reference it got                               *)

InitParse ==
    /\ arg \in Identifiers
    /\ ref = Unset
    /\ byId = Unset
    /\ byRef = Unset
    /\ ppc = "start"
    /\ ResIdle
    /\ ApiIdle
    /\ HeapIdle
    /\ CatalogIdle
    /\ FindIdle

\* SchemaRef(arg)
Parse ==
    /\ ppc = "start"
    /\ ref' = SchemaRef(arg)
    /\ ppc' = "parsed"
    /\ UNCHANGED <<arg, byId, byRef>>
    /\ UNCHANGED <<resVars, apiVars, findVars, heapVars, catalogVars>>

\* SchemaRef(ref.id)
ReparseId ==
    /\ ppc = "parsed"
    /\ ref.ok
    /\ byId = Unset
    /\ byId' = SchemaRef(ref.id)
    /\ UNCHANGED <<arg, ref, byRef, ppc>>
    /\ UNCHANGED <<resVars, apiVars, findVars, heapVars, catalogVars>>

\* SchemaRef(ref.ref)
ReparseRef ==
    /\ ppc = "parsed"
    /\ ref.ok
    /\ byRef = Unset
    /\ byRef' = SchemaRef(ref.ref)
    /\ UNCHANGED <<arg, ref, byId, ppc>>
    /\ UNCHANGED <<resVars, apiVars, findVars, heapVars, catalogVars>>

NextParse == Parse \/ ReparseId \/ ReparseRef

SpecParse == InitParse /\ [][NextParse]_vars


-----------------------------------------------------------------------------
(* Claims about the reference parser, checked under SpecParse *)

\* the segments SchemaRef splits arg into (<<>> when arg has no prefix)
ArgSegs == IF Segments(arg) = None THEN <<>> ELSE Segments(arg)[1]
ArgKey == Join(ArgSegs, ".")

\* C1 (as claimed): whenever arg parses, parsing the short id of the
\* result and parsing its canonical ref both succeed and give a reference
\* equal to the first in every field.
C1_RoundTripBothNotations ==
    /\ (ref.ok /\ byId # Unset) => byId = ref
    /\ (ref.ok /\ byRef # Unset) => byRef = ref

\* C2: a canonical-form identifier that parses (https://ns.adobe.com/...
\* of a tenant resource, or the canonical ref of an entry of the global
\* table) comes back unchanged as the canonical ref of the result.
GlobalRefs == {GLOBAL_RESOURCES[k][2] : k \in DOMAIN GLOBAL_RESOURCES}

C2_CanonicalRefIsFixedPoint ==
    (/\ ppc = "parsed"
     /\ ref.ok
     /\ \/ StartsWith(arg, CanonicalPrefix) /\ ref.container = "tenant"
        \/ arg \in GlobalRefs)
    => ref.ref = arg

C2_Witness ==
    /\ ppc = "parsed"
    /\ ref.ok
    /\ ref.container = "tenant"
    /\ ref.resource = "FIELD_GROUP"
    /\ arg = CanonicalPrefix \o <<"t", "/", "mixins", "/", "u">>
    /\ ref.ref = arg

\* what C3 says of the result for an identifier whose key is in the table
IsGlobalEntry(r, k) ==
    /\ r.ok
    /\ r.container = "global"
    /\ r.tenant = None
    /\ r.uuid = k
    /\ r.id = <<"_">> \o k
    /\ r.resource = from_name(GLOBAL_RESOURCES[k][1])
    /\ r.ref = GLOBAL_RESOURCES[k][2]

\* C3 (as claimed): every identifier, in short or URL notation, whose
\* segments joined by "." are a key k of the global table parses to the
\* global entry of k, whatever the number of segments.
C3_Original ==
    (ppc = "parsed" /\ Segments(arg) # None /\ ArgKey \in DOMAIN GLOBAL_RESOURCES)
    => IsGlobalEntry(ref, ArgKey)

\* arg has three segments with a known alias in the middle
ThreeSegmentTenantForm ==
    /\ Segments(arg) # None
    /\ Len(ArgSegs) = 3
    /\ Len(ArgSegs[2]) = 1
    /\ ArgSegs[2][1] \in Aliases

\* the kind each alias names, the two spellings of a kind side by side
AliasKind(a) ==
    CASE a \in {"mixins", "fieldgroups"} -> "FIELD_GROUP"
      [] a \in {"data", "behaviors"} -> "BEHAVIOR"
      [] a = "schemas" -> "SCHEMA"
      [] a = "classes" -> "CLASS"
      [] a = "datatypes" -> "DATA_TYPE"

IsTenantRef(r, split) ==
    /\ r.ok
    /\ r.container = "tenant"
    /\ r.tenant = Some(split[1])
    /\ r.uuid = split[3]
    /\ r.resource = AliasKind(split[2][1])

\* C4 (as claimed): every three-segment identifier t.k.u with a known alias
\* k parses to container tenant, tenant t, uuid u and the kind k names.
C4_Original ==
    (ppc = "parsed" /\ ThreeSegmentTenantForm) => IsTenantRef(ref, ArgSegs)

\* C4 (amended): the same for every such identifier whose key t.k.u is not
\* in the global table; "mixins" and "fieldgroups", "data" and "behaviors"
\* give the same kind.
C4_TenantPattern ==
    (ppc = "parsed" /\ ThreeSegmentTenantForm /\ ArgKey \notin DOMAIN GLOBAL_RESOURCES)
    => IsTenantRef(ref, ArgSegs)

\* a legacy alias has been parsed to the kind of its current spelling
C4_Witness ==
    /\ ppc = "parsed"
    /\ arg = <<"_", "t", ".", "data", ".", "u">>
    /\ ref.ok
    /\ ref.container = "tenant"
    /\ ref.resource = "BEHAVIOR"

\* arg has no prefix, or its key is neither in the table nor of three
\* segments with a known alias in the middle
Malformed ==
    \/ Segments(arg) = None
    \/ /\ ArgKey \notin DOMAIN GLOBAL_RESOURCES
       /\ ~ThreeSegmentTenantForm

\* C5 (as claimed): parsing a malformed identifier always fails with the
\* one error 'unable to parse ref' and yields no reference.
C5_MalformedAlwaysUnparseable ==
    (ppc = "parsed" /\ Malformed) => ref = UnableToParse


-----------------------------------------------------------------------------
(* Claims about one Resource, checked under Spec *)

\* the reference the argument of a constructor parses to
ArgRef(b) ==
    CASE b.t = "str" -> SchemaRef(b.v)
      [] b.t = "SchemaRef" -> b.v
      [] b.t = "dict" /\ "$id" \in DOMAIN b.v -> SchemaRef(b.v["$id"])
      [] OTHER -> Raise("no reference")

\* C6: constructing a typed Resource from a str, a SchemaRef or a dict whose
\* reference is of another kind than the variant's fails with 'Mismatched
\* resource type'; no Resource is produced and no request is sent.
C6_KindMismatchRejected ==
    (/\ op.name = "construct"
     /\ ArgRef(op.arg.body).ok
     /\ ArgRef(op.arg.body).resource # op.arg.cls)
    => /\ op.outcome = "raised"
       /\ op.error = "Mismatched resource type"
       /\ op.value = None
       /\ op.sent = <<>>
       /\ res = NoResource

\* Schema(api, {'$id': <ref of a field group>}) has been called
C6_Witness ==
    /\ op.name = "construct"
    /\ op.arg.cls = "SCHEMA"
    /\ op.arg.body.t = "dict"
    /\ ArgRef(op.arg.body).ok
    /\ ArgRef(op.arg.body).resource = "FIELD_GROUP"
    /\ op.outcome = "raised"

\* the key and the patch path of a setter
SetterKey(name) == IF name = "title=" THEN "title" ELSE "description"
SetterPath(name) == IF name = "title=" THEN <<"/", "title">> ELSE <<"/", "description">>

\* C8 (as claimed): after `title = v` (`description = v`) returned, exactly
\* one request was sent, the PATCH [{op: replace, path: /title, value: v}],
\* and the body's title (description) is v, whatever the server answered.
C8_SetterReflectsValue ==
    (op.name \in {"title=", "description="} /\ op.outcome = "returned")
    => /\ Len(op.sent) = 1
       /\ op.sent[1].method = "PATCH"
       /\ op.sent[1].json = Some(<<[op |-> "replace", path |-> SetterPath(op.name),
                                    value |-> op.arg[1]]>>)
       /\ SetterKey(op.name) \in DOMAIN res.body
       /\ res.body[SetterKey(op.name)] = op.arg[1]

LowFidelity == [Accept |-> <<"application/vnd.adobe.xed", "+json", "; version=", "1">>]
FullFidelity ==
    [Accept |-> <<"application/vnd.adobe.xed", "-", "full", "+json", "; version=", "1">>]

\* the request a lazy accessor sent is one GET with the Accept header
FetchedWith(names, accept) ==
    (op.name \in names /\ op.sent # <<>>)
    => /\ Len(op.sent) = 1
       /\ op.sent[1].method = "GET"
       /\ op.sent[1].headers = accept

\* C10 (as claimed): the lazy fetch of version, title, description or
\* extends asks for low fidelity, that of properties or definitions for
\* full fidelity.
C10_Original ==
    /\ FetchedWith({"version", "title", "description", "extends"}, LowFidelity)
    /\ FetchedWith({"properties", "definitions"}, FullFidelity)

\* C10 (amended): the lazy fetch of version, title, description, extends or
\* definitions asks for low fidelity; only that of properties asks for full
\* fidelity.
C10_LazyFetchFidelity ==
    /\ FetchedWith({"version", "title", "description", "extends", "definitions"},
                   LowFidelity)
    /\ FetchedWith({"properties"}, FullFidelity)

\* properties has fetched the document it returned its value from
C10_Witness ==
    /\ op.name = "properties"
    /\ op.outcome = "returned"
    /\ Len(op.sent) = 1
    /\ op.sent[1].headers = FullFidelity
    /\ "properties" \in DOMAIN res.body


\* the document of the answer is that of the Resource r
AnswerIsOf(r, doc) ==
    /\ "$id" \in DOMAIN doc
    /\ "meta:altId" \in DOMAIN doc
    /\ doc["$id"] = r.ref
    /\ doc["meta:altId"] = r.id

\* C11: in every step in which a request of the Resource is answered with a
\* document, either the document carries the Resource's ref as $id and its
\* id as meta:altId, and then every key of the document is in the body with
\* the document's value and every other key of the body is as before; or
\* the operation fails with the failed assertion and the body is exactly as
\* it was before the request.
C11_ResponseValidated ==
    [][(answer' # <<>> /\ answer'[1].kind = "json") =>
         LET doc == answer'[1].doc IN
         IF AnswerIsOf(res, doc)
         THEN /\ \A k \in DOMAIN doc :
                    k \in DOMAIN res'.body /\ res'.body[k] = doc[k]
              /\ \A k \in DOMAIN res.body \ DOMAIN doc :
                    k \in DOMAIN res'.body /\ res'.body[k] = res.body[k]
         ELSE /\ op'.outcome = "raised"
              /\ op'.error = "AssertionError"
              /\ res'.body = res.body]_vars

\* a get was answered with the document of another resource and failed; the
\* body still holds the $id alone
C11_Witness ==
    /\ op.name = "get"
    /\ answer # <<>>
    /\ answer[1].kind = "json"
    /\ answer[1].doc["$id"] = OtherRef
    /\ op.outcome = "raised"
    /\ op.error = "AssertionError"
    /\ DOMAIN res.body = {"$id"}

\* the operations that hand the caller a Resource
Obtaining == {"construct", "collection get", "BehaviorCollection"}

\* the operations on a Resource the caller holds
Later == {"get", "delete", "title=", "description=", "version", "title",
          "description", "properties", "definitions", "extends", "parent",
          "intendedToExtend", "add_field_group"}

\* C19: an operation that hands the caller a Resource (a constructor called
\* with a string, a Reference or a body, get of a collection, or the
\* construction of a BehaviorCollection with its singletons adhoc, record
\* and time_series) sends no request and receives no answer, and a Resource
\* made from a string or a Reference holds its $id alone; whenever the last
\* operation sent a request, it was an accessor, get, a mutation or delete
\* on a Resource obtained before.
C19_NoRequestOnConstruction ==
    /\ op.name \in Obtaining =>
          /\ op.sent = <<>>
          /\ answer = <<>>
          /\ (op.outcome = "returned" /\ op.arg.body.t \in {"str", "SchemaRef"}) =>
                res.body = ("$id" :> res.ref)
    /\ op.sent # <<>> => (op.name \in Later /\ res.ok)

\* the BehaviorCollection was constructed and the caller holds its
\* time_series singleton, a Behavior with the $id alone, and nothing was sent
C19_Witness ==
    /\ op.name = "BehaviorCollection"
    /\ op.outcome = "returned"
    /\ op.sent = <<>>
    /\ res.ok
    /\ res.type = "BEHAVIOR"
    /\ res.ref = SingletonRef("time_series")
    /\ res.body = ("$id" :> SingletonRef("time_series"))

\* C22: in every step of an accessor, get, a setter or delete in which
\* api.request raised, exactly one request was sent, the operation raised
\* that error, and the body after the step is the body before it.
C22_FailureLeavesBody ==
    [][(op'.name \in Later /\ answer' # <<>> /\ answer'[Len(answer')].kind = "raise") =>
         /\ Len(op'.sent) = 1
         /\ Len(answer') = 1
         /\ op'.outcome = "raised"
         /\ op'.error = "HTTPError"
         /\ res'.body = res.body]_vars

\* the title was fetched as A, then title = B failed in the transport: one
\* PATCH was sent, the setter raised, and the body still says A
C22_Witness ==
    /\ op.name = "title="
    /\ op.arg = Some("B")
    /\ answer = <<ApiRaise>>
    /\ Len(op.sent) = 1
    /\ op.outcome = "raised"
    /\ "title" \in DOMAIN res.body
    /\ res.body["title"] = "A"

\* the accessors that fetch lazily, and the key of the body each one tests
Accessors == {"version", "title", "description", "properties", "definitions",
              "extends", "intendedToExtend", "parent"}

AccessorKey(name) ==
    CASE name = "definitions" -> "allOf"
      [] name = "extends" -> "meta:extends"
      [] name = "intendedToExtend" -> "meta:intendedToExtend"
      [] name = "parent" -> "meta:class"
      [] OTHER -> name

\* C21: in every step that is an access of version, title, description,
\* properties, definitions, extends, intendedToExtend or parent, no request
\* is sent when the key the accessor tests is in the body before the step,
\* and exactly one request, a GET, when it is not; when the access returns,
\* the key is in the body afterwards, whatever the server answered; and no
\* step of any operation takes a key out of the body. So after an access
\* has returned, every later access of that field sends no request.
C21_LazyFetchedOnce ==
    [][/\ res.ok => (res'.ok /\ DOMAIN res.body \subseteq DOMAIN res'.body)
       /\ op'.name \in Accessors =>
            /\ AccessorKey(op'.name) \in DOMAIN res.body => op'.sent = <<>>
            /\ AccessorKey(op'.name) \notin DOMAIN res.body =>
                  (Len(op'.sent) = 1 /\ op'.sent[1].method = "GET")
            /\ op'.outcome = "returned" => AccessorKey(op'.name) \in DOMAIN res'.body]_vars

\* properties was fetched, the server's document had no properties, the
\* accessor stored the empty default, and the access just made sent nothing
C21_Witness ==
    /\ op.name = "properties"
    /\ op.outcome = "returned"
    /\ op.sent = <<>>
    /\ "meta:altId" \in DOMAIN res.body
    /\ res.body["properties"] = <<>>

\* C28: add_field_group(fg) with fg a FieldGroup sends exactly one PATCH
\* whose body is the single operation add at /allOf/- of {$ref: the short
\* id of fg}; when that request succeeds the body is updated from the
\* response and the call then raises an error instead of returning the
\* Schema; with fg not a FieldGroup it fails before any request is sent.
C28_AddFieldGroup ==
    op.name = "add_field_group" =>
        IF op.arg[1] \in {"fg1", "fg2"}
        THEN /\ Len(op.sent) = 1
             /\ op.sent[1].method = "PATCH"
             /\ op.sent[1].path = get_resource_path(res.container, res.type, Some(res.id))
             /\ op.sent[1].json =
                   Some(<<[op |-> "add", path |-> <<"/", "allOf", "/", "-">>,
                           value |-> ("$ref" :> Object(op.arg[1]).id)]>>)
             /\ op.outcome = "raised"
             /\ op.error \in {"HTTPError", "KeyError", "AssertionError", "TypeError"}
             /\ (op.error = "HTTPError") = (answer[1].kind = "raise")
             /\ (op.error = "TypeError") =
                   \/ answer[1].kind = "none"
                   \/ /\ answer[1].kind = "json"
                      /\ "$id" \in DOMAIN answer[1].doc
                      /\ answer[1].doc["$id"] = res.ref
                      /\ "meta:altId" \in DOMAIN answer[1].doc
                      /\ answer[1].doc["meta:altId"] = res.id
             /\ (op.error = "TypeError" /\ answer[1].kind = "json") =>
                   \A k \in DOMAIN answer[1].doc :
                       k \in DOMAIN res.body /\ res.body[k] = answer[1].doc[k]
        ELSE /\ op.sent = <<>>
             /\ op.outcome = "raised"
             /\ op.error = "AssertionError"

\* add_field_group of a FieldGroup raised after its PATCH was answered with
\* the document of the Schema, which is now in the body
C28_Witness ==
    /\ op.name = "add_field_group"
    /\ op.arg = Some("fg1")
    /\ Len(op.sent) = 1
    /\ answer[1].kind = "json"
    /\ op.outcome = "raised"
    /\ op.error = "TypeError"
    /\ "title" \in DOMAIN res.body
    /\ res.body["title"] = answer[1].doc["title"]

\* the body of the Resource r names r: its $id is r's ref and its
\* meta:altId, once there, r's id
NamesItself(r) ==
    /\ "$id" \in DOMAIN r.body
    /\ r.body["$id"] = r.ref
    /\ "meta:altId" \in DOMAIN r.body => r.body["meta:altId"] = r.id

\* C27: a Resource constructed from an identifier string or a Reference
\* has a body whose $id is its ref; and whatever get, accessor, mutation or
\* delete is called on a Resource whose body names it, and however it ends,
\* the body's $id stays the Resource's ref, its meta:altId is the
\* Resource's id once it is there, and id, ref, uuid, tenant, container and
\* type stay the values fixed at construction.
C27_IdentityKept ==
    [][/\ (~res.ok /\ res'.ok /\ op'.name = "construct"
           /\ op'.arg.body.t \in {"str", "SchemaRef"}) =>
              /\ res'.body = ("$id" :> res'.ref)
              /\ res'.ref = op'.value[1].ref
              /\ NamesItself(res')
       /\ (res.ok /\ NamesItself(res)) =>
              /\ res'.ok
              /\ NamesItself(res')
              /\ res'.id = res.id /\ res'.ref = res.ref /\ res'.uuid = res.uuid
              /\ res'.tenant = res.tenant /\ res'.container = res.container
              /\ res'.type = res.type]_vars

\* a Schema made from its short id was fetched, and then a change of its
\* title failed: its body still names it
C27_Witness ==
    /\ res.ok
    /\ res.id = <<"_", "t", ".", "schemas", ".", "u">>
    /\ op.name = "title="
    /\ op.outcome = "raised"
    /\ Len(op.sent) = 1
    /\ "meta:altId" \in DOMAIN res.body
    /\ res.body["meta:altId"] = res.id
    /\ res.body["$id"] = res.ref

-----------------------------------------------------------------------------
(* Claims about Resource.definitions, checked under SpecDefinitions *)

\* the allOf entry e is a local reference (its $ref starts with '#')
IsLocal(e) == "$ref" \in DOMAIN e /\ StartsWith(e["$ref"], <<"#">>)

\* the name a well-placed local reference gives
LocalName(e) == SubSeq(e["$ref"], Len(LocalPrefix) + 1, Len(e["$ref"]))

\* a local reference that resolves: exactly '#/definitions/<name>', no '/'
\* in the name, no sibling properties, the name defined with properties
Resolves(body, e) ==
    /\ StartsWith(e["$ref"], LocalPrefix)
    /\ \A j \in 1..Len(LocalName(e)) : LocalName(e)[j] # "/"
    /\ "properties" \notin DOMAIN e
    /\ "definitions" \in DOMAIN body
    /\ LocalName(e) \in DOMAIN body["definitions"]
    /\ "properties" \in DOMAIN body["definitions"][LocalName(e)]

\* the properties the entry e contributes: those of its target when it is
\* a local reference that resolves, else its own, none when it has none
Contribution(body, e) ==
    IF IsLocal(e)
    THEN IF Resolves(body, e) THEN body["definitions"][LocalName(e)]["properties"] ELSE <<>>
    ELSE IF "properties" \in DOMAIN e THEN e["properties"] ELSE <<>>

\* some key is contributed by two entries of the list
Collides(body) ==
    \E i, j \in 1..Len(body["allOf"]) :
        /\ i # j
        /\ DOMAIN Contribution(body, body["allOf"][i])
             \cap DOMAIN Contribution(body, body["allOf"][j]) # {}

\* m is the union of the contributions of all entries
IsUnion(body, m) ==
    /\ DOMAIN m = UNION {DOMAIN Contribution(body, body["allOf"][i]) :
                            i \in 1..Len(body["allOf"])}
    /\ \A i \in 1..Len(body["allOf"]) :
          \A k \in DOMAIN Contribution(body, body["allOf"][i]) :
              m[k] = Contribution(body, body["allOf"][i])[k]

\* every local reference of the list resolves
WellFormed(body) ==
    \A i \in 1..Len(body["allOf"]) :
        IsLocal(body["allOf"][i]) => Resolves(body, body["allOf"][i])

\* C12 (as claimed): definitions fails with 'unhandled merging of
\* definitions' when some property key is contributed by two entries of
\* allOf, and otherwise returns exactly the union of the entries'
\* properties.
C12_Original ==
    op.name = "definitions" =>
        IF Collides(res.body)
        THEN op.outcome = "raised" /\ op.error = "unhandled merging of definitions"
        ELSE op.outcome = "returned" /\ IsUnion(res.body, op.value[1])

\* C12 (amended): the same for a body in which every allOf entry that is a
\* local reference resolves.
C12_DefinitionsMerge ==
    (op.name = "definitions" /\ WellFormed(res.body)) =>
        IF Collides(res.body)
        THEN op.outcome = "raised" /\ op.error = "unhandled merging of definitions"
        ELSE op.outcome = "returned" /\ IsUnion(res.body, op.value[1])

\* definitions returned the union of an inline block, a local definition
\* and a reference to another resource
C12_Witness ==
    /\ op.name = "definitions"
    /\ op.outcome = "returned"
    /\ Len(res.body["allOf"]) = 3
    /\ WellFormed(res.body)
    /\ DOMAIN op.value[1] = {"y", "z"}

\* the messages of the assertions on a local reference
LocalRefErrors ==
    {"unexpected \"properties\" and \"$ref\" definition",
     "unexpected non-definitions reference",
     "unexpected nested definition reference",
     "reference to missing definition",
     "expected definition to be an object"}

\* the mapping m holds every property of the mapping p
Holds(m, p) == \A k \in DOMAIN p : k \in DOMAIN m /\ m[k] = p[k]

\* C23: in definitions, an allOf entry whose $ref starts with '#' gives the
\* properties of definitions[<name>] only when the $ref is exactly
\* '#/definitions/<name>' with no '/' in the name, the entry has no sibling
\* properties, the name is defined and its target has properties; when one
\* of these fails for some entry the access fails; every other entry gives
\* its own inline properties, nothing when it has none; and a body that
\* carries allOf causes no request.
C23_LocalReferences ==
    op.name = "definitions" =>
        /\ op.sent = <<>>
        /\ ~WellFormed(res.body) => op.outcome = "raised"
        /\ (op.outcome = "raised" /\ op.error \in LocalRefErrors) => ~WellFormed(res.body)
        /\ op.outcome = "returned" =>
              /\ \A i \in 1..Len(res.body["allOf"]) :
                    LET e == res.body["allOf"][i]
                    IN  /\ IsLocal(e) =>
                              /\ Resolves(res.body, e)
                              /\ Holds(op.value[1],
                                       res.body["definitions"][LocalName(e)]["properties"])
                        /\ (~IsLocal(e) /\ "properties" \in DOMAIN e) =>
                              Holds(op.value[1], e["properties"])
              /\ \A k \in DOMAIN op.value[1] :
                    \E i \in 1..Len(res.body["allOf"]) :
                        k \in DOMAIN Contribution(res.body, res.body["allOf"][i])

\* definitions returned the properties of a local definition next to an
\* entry without properties and a reference to another resource, which
\* gave nothing
C23_Witness ==
    /\ op.name = "definitions"
    /\ op.outcome = "returned"
    /\ op.sent = <<>>
    /\ Len(res.body["allOf"]) = 3
    /\ \E i \in 1..3 : res.body["allOf"][i] = Entry("#g")
    /\ \E i \in 1..3 : res.body["allOf"][i] = Entry("other resource")
    /\ \E i \in 1..3 : res.body["allOf"][i] = Entry("plain")
    /\ op.value[1] = ("x" :> "string")

-----------------------------------------------------------------------------
(* Claims about extends and behavior, checked under SpecExtends *)

\* the refs of meta:extends all parse
ExtendsResolves ==
    /\ "meta:extends" \in DOMAIN res.body
    /\ \A i \in 1..Len(res.body["meta:extends"]) : SchemaRef(res.body["meta:extends"][i]).ok

\* the refs of meta:extends that parse to the kind Behavior, in order
BehaviorRefs ==
    SelectSeq(res.body["meta:extends"], LAMBDA x : SchemaRef(x).resource = "BEHAVIOR")

\* C15: when the refs of meta:extends resolve, behavior returns the one
\* resource of kind Behavior among them if there is exactly one, and fails
\* with the failed assertion if there is none or more than one.
C15_BehaviorExactlyOne ==
    (op.name = "behavior" /\ ExtendsResolves) =>
        IF Len(BehaviorRefs) = 1
        THEN /\ op.outcome = "returned"
             /\ op.value[1].type = "BEHAVIOR"
             /\ op.value[1].ref = SchemaRef(BehaviorRefs[1]).ref
        ELSE /\ op.outcome = "raised"
             /\ op.error = "AssertionError"

\* behavior failed on a Class that extends two behaviors
C15_Witness ==
    /\ op.name = "behavior"
    /\ res.type = "CLASS"
    /\ ExtendsResolves
    /\ Len(BehaviorRefs) = 2
    /\ op.outcome = "raised"
    /\ op.error = "AssertionError"

-----------------------------------------------------------------------------
(* Claims about the collections, checked under SpecCollection *)

\* C16: get(ref) with a ref that parses fails when the parsed kind is not
\* among the kinds of the collection, and otherwise returns a Resource whose
\* kind is the parsed one, which is a kind of the collection, for the
\* parsed reference.
C16_GetChecksKind ==
    (op.name = "get" /\ SchemaRef(op.arg[1]).ok) =>
        LET sr == SchemaRef(op.arg[1]) IN
        IF sr.resource \notin {coll.resources[i] : i \in 1..Len(coll.resources)}
        THEN op.outcome = "raised" /\ op.error = "AssertionError"
        ELSE /\ op.outcome = "returned"
             /\ op.value[1].ok
             /\ op.value[1].type = sr.resource
             /\ op.value[1].ref = sr.ref
             /\ op.value[1].id = sr.id

\* a SchemaCollection was asked for a field group and failed
\* C29: get ignores the container the collection is bound to: on a bound
\* collection it succeeds for every identifier that parses and whose kind
\* is allowed, also when the identifier is of the other container, and the
\* Resource returned carries the container of the identifier.
C29_GetIgnoresContainer ==
    (/\ op.name = "get"
     /\ coll.container # None
     /\ SchemaRef(op.arg[1]).ok
     /\ \E i \in 1..Len(coll.resources) : coll.resources[i] = SchemaRef(op.arg[1]).resource) =>
        /\ op.outcome = "returned"
        /\ op.sent = <<>>
        /\ op.value[1].ok
        /\ op.value[1].container = SchemaRef(op.arg[1]).container
        /\ op.value[1].tenant = SchemaRef(op.arg[1]).tenant
        /\ op.value[1].ref = SchemaRef(op.arg[1]).ref

\* get on a collection bound to one container returned a Resource of the
\* other container
C29_Witness ==
    /\ op.name = "get"
    /\ coll.container # None
    /\ op.outcome = "returned"
    /\ op.value[1].ok
    /\ op.value[1].container # coll.container[1]

C16_Witness ==
    /\ op.name = "get"
    /\ coll.resources = <<"SCHEMA">>
    /\ SchemaRef(op.arg[1]).ok
    /\ SchemaRef(op.arg[1]).resource = "FIELD_GROUP"
    /\ op.outcome = "raised"
    /\ op.error = "AssertionError"

\* the collection is bound to the global container or holds several kinds
CreateRejected == coll.container = Some("global") \/ Len(coll.resources) > 1

\* the tenant-container path of a kind
TenantPath(kind) ==
    <<"/data/foundation/schemaregistry/", "tenant", "/",
      CASE kind = "SCHEMA" -> "schemas"
        [] kind = "CLASS" -> "classes"
        [] kind = "FIELD_GROUP" -> "fieldgroups"
        [] kind = "DATA_TYPE" -> "datatypes"
        [] kind = "BEHAVIOR" -> "behaviors">>

\* C13: a create through a collection bound to the global container or
\* holding more than one kind fails and sends nothing; every other _create
\* sends exactly one POST, with the body it was given, to the tenant path of
\* the collection's kind; when the server answers with a document of that
\* kind the call returns, and whenever it returns, its value is a Resource
\* of that kind whose body is the document of the response.
C13_CreateScoped ==
    op.name \in {"_create", "create"} =>
        /\ CreateRejected => (op.outcome = "raised" /\ op.sent = <<>>)
        /\ (~CreateRejected /\ op.name = "_create") =>
              (Len(op.sent) = 1 /\ op.sent[1].json = op.arg)
        /\ Len(op.sent) <= 1
        /\ op.sent # <<>> =>
              /\ op.sent[1].method = "POST"
              /\ op.sent[1].path = TenantPath(coll.resources[1])
        /\ (/\ answer # <<>>
            /\ answer[1].kind = "json"
            /\ SchemaRef(answer[1].doc["$id"]).ok
            /\ SchemaRef(answer[1].doc["$id"]).resource = coll.resources[1])
           => op.outcome = "returned"
        /\ op.outcome = "returned" =>
              /\ answer # <<>>
              /\ answer[1].kind = "json"
              /\ op.value[1].ok
              /\ op.value[1].type = coll.resources[1]
              /\ op.value[1].body = answer[1].doc
              /\ res = op.value[1]

\* tenant_field_groups._create returned the FieldGroup the server created
C13_Witness ==
    /\ op.name = "_create"
    /\ coll = Collection(Some("tenant"), <<"FIELD_GROUP">>)
    /\ op.outcome = "returned"
    /\ Len(op.sent) = 1
    /\ res.ok
    /\ res.type = "FIELD_GROUP"
    /\ res.body = answer[1].doc

\* the arguments of the last create are a Class and FieldGroups only
CreateArgsValid ==
    /\ IsInstance(Object(op.arg[1].parent), "CLASS")
    /\ \A i \in 1..Len(op.arg[1].field_groups) :
          IsInstance(Object(op.arg[1].field_groups[i]), "FIELD_GROUP")

\* the body the claim gives for the arguments of the last create
ClaimedSchemaBody ==
    LET a == op.arg[1]
    IN  ("type" :> "object") @@ ("title" :> a.title) @@ ("description" :> a.description)
        @@ ("allOf" :> <<("$ref" :> Object(a.parent).ref)>>
                       \o [i \in 1..Len(a.field_groups) |->
                              ("$ref" :> Object(a.field_groups[i]).ref)])

\* C14 (as claimed): SchemaCollection.create sends exactly one POST with the
\* body {type, title, description, allOf: parent then field groups}; when
\* parent is not a Class or a field group is not a FieldGroup it fails and
\* sends nothing.
C14_Original ==
    op.name = "create" =>
        IF CreateArgsValid
        THEN /\ Len(op.sent) = 1
             /\ op.sent[1].method = "POST"
             /\ op.sent[1].json = Some(ClaimedSchemaBody)
        ELSE op.outcome = "raised" /\ op.sent = <<>>

\* C14 (amended): the same on a SchemaCollection that is not bound to the
\* global container.
C14_SchemaCreateBody ==
    (op.name = "create" /\ coll.container # Some("global")) =>
        IF CreateArgsValid
        THEN /\ Len(op.sent) = 1
             /\ op.sent[1].method = "POST"
             /\ op.sent[1].json = Some(ClaimedSchemaBody)
        ELSE op.outcome = "raised" /\ op.sent = <<>>

\* schemas.create with a Class and two field groups has sent its POST
C14_Witness ==
    /\ op.name = "create"
    /\ coll.container = None
    /\ op.arg[1].parent = "class"
    /\ op.arg[1].field_groups = <<"fg2", "fg1">>
    /\ Len(op.sent) = 1
    /\ op.sent[1].json[1]["allOf"] =
         <<("$ref" :> ClassRef),
           ("$ref" :> CanonicalPrefix \o <<"t", "/", "fieldgroups", "/", "v">>),
           ("$ref" :> CanonicalPrefix \o <<"t", "/", "mixins", "/", "u">>)>>
    /\ op.outcome = "returned"

-----------------------------------------------------------------------------
(* Claims about the Resource objects of one caller, checked under SpecObjects *)

\* C20: in every step, the Resource objects the caller holds afterwards
\* (obtained by get, findall, _create, parent or extends) name pairwise
\* different dicts as their bodies, and the dict of every held Resource
\* other than the one the step's operation was called on (a fetch, the
\* title setter or an accessor) is what it was before the step.
C20_NoSharedBody ==
    [][/\ \A i, j \in 1..Len(held') : i # j => held'[i].at # held'[j].at
       /\ \A j \in 1..Len(held) :
            j # op'.arg => heap'[held[j].at] = heap[held[j].at]]_vars

\* the caller holds two Resource objects of the same schema, the title was
\* just set on the second and the response merged into its body, and the
\* body of the first still holds the $id alone
C20_Witness ==
    /\ Len(held) = 2
    /\ held[1].obj.ref = SchemaUrl
    /\ held[2].obj.ref = SchemaUrl
    /\ op.name = "title="
    /\ op.arg = 2
    /\ op.outcome = "returned"
    /\ "title" \in DOMAIN heap[held[2].at]
    /\ heap[held[1].at] = ("$id" :> SchemaUrl)

-----------------------------------------------------------------------------
(* Claims about findall, checked under SpecFindall *)

\* the kinds and containers of the collection that is listed
Pairs == {<<coll.resources[i], Containers(coll)[j]>> :
             i \in 1..Len(coll.resources), j \in 1..Len(Containers(coll))}

\* the requests sent for one kind and container, in the order sent
PairLog(pair) ==
    SelectSeq(flog, LAMBDA e : e.resource = pair[1] /\ e.container = pair[2])

\* all items of all pages of the server's listing of one kind and
\* container, in page order
RECURSIVE ListingItems(_, _)
ListingItems(pair, p) ==
    IF p > Len(listing) THEN <<>>
    ELSE Page(listing, pair[1], pair[2], p)["results"] \o ListingItems(pair, p + 1)

\* the documents of the returned resources that belong to one kind and
\* container, in the order returned
ReturnedItems(pair) ==
    LET bodies == [i \in 1..Len(results) |-> results[i].body]
        mine == {ListingItems(pair, 1)[i] : i \in 1..Len(ListingItems(pair, 1))}
    IN  SelectSeq(bodies, LAMBDA b : b \in mine)

\* C7: for every kind and container that findall lists, the first request
\* carries no start parameter; every later request carries as start the
\* cursor of the response just before it; every request carries the property
\* filter of the query, or none when the query is empty; no cursor is sent
\* twice; and once findall has returned, the resources of that kind and
\* container are exactly the items of all pages of the listing, in page
\* order, each one once.
C7_PaginationFollowsCursors ==
    \A pair \in Pairs :
        LET log == PairLog(pair) IN
        /\ Len(log) > 0 => "start" \notin DOMAIN log[1].request.params
        /\ \A j \in 2..Len(log) :
              /\ log[j - 1].next # None
              /\ "start" \in DOMAIN log[j].request.params
              /\ log[j].request.params["start"] = log[j - 1].next[1]
        /\ \A j \in 1..Len(log) :
              IF call.query = <<>>
              THEN "property" \notin DOMAIN log[j].request.params
              ELSE /\ "property" \in DOMAIN log[j].request.params
                   /\ log[j].request.params["property"] = PropertyFilter(call.query)
        /\ \A j, k \in 2..Len(log) :
              j # k => log[j].request.params["start"] # log[k].request.params["start"]
        /\ fpc = "returned" =>
              /\ ReturnedItems(pair) = ListingItems(pair, 1)
              /\ \A e \in 1..Len(results) : results[e].ok

\* findall returned from a listing of three pages of 2, 2 and 1 items of one
\* kind and container, sent with a filter: three requests, five resources
C7_Witness ==
    /\ fpc = "returned"
    /\ listing = <<2, 2, 1>>
    /\ Cardinality(Pairs) = 1
    /\ call.query # <<>>
    /\ Len(flog) = 3
    /\ Len(results) = 5

\* C17: when the findall that find called has returned, find returns its
\* sole element if there is exactly one, fails with 'Could not find
\* resource' if there is none, and fails with the different error 'Multiple
\* resources match the parameters' if there are several; the listing
\* requests carried the filter and the fidelity find was called with.
C17_FindExactlyOne ==
    /\ (fpc \in {"found", "find raised"}) =>
          /\ op.name = "find"
          /\ IF Len(results) = 1
             THEN fpc = "found" /\ op.outcome = "returned" /\ op.value = Some(results[1])
             ELSE IF Len(results) = 0
             THEN fpc = "find raised" /\ op.error = "Could not find resource"
             ELSE fpc = "find raised"
                  /\ op.error = "Multiple resources match the parameters"
    /\ (call.via = "find" /\ fpc # "idle") =>
          \A j \in 1..Len(flog) :
              /\ flog[j].request.headers.Accept =
                   IF call.full THEN <<"application/vnd.adobe.xed", "-", "full", "+json">>
                   ELSE <<"application/vnd.adobe.xed", "+json">>
              /\ ("property" \in DOMAIN flog[j].request.params) = (call.query # <<>>)

\* find failed because two pages of one item each matched
C17_Witness ==
    /\ fpc = "find raised"
    /\ listing = <<1, 1>>
    /\ Cardinality(Pairs) = 1
    /\ Len(results) = 2
    /\ op.error = "Multiple resources match the parameters"

\* C26: once findall is under way, it ends when the server ends every
\* listing with a page without a next cursor, and has then sent exactly one
\* request per page of every kind and container; and the loop of _paginate
\* is left only on a page without a next cursor (or on a request that
\* fails): after a page with a next cursor the same loop goes on, so it
\* does not end while the server keeps sending one.
C26_PaginateTerminates ==
    /\ (fpc = "paging") ~> (fpc \in {"returned", "raised"})
    /\ [](fpc = "returned" => \A pair \in Pairs : Len(PairLog(pair)) = Len(listing))
    /\ [][(fpc = "paging" /\ Len(flog') = Len(flog) + 1) =>
            LET sent == flog'[Len(flog')]
            IN  IF sent.outcome = "page" /\ sent.next # None
                THEN /\ fpc' = "paging" /\ ri' = ri /\ ci' = ci
                     /\ "start" \in DOMAIN params' /\ params'["start"] = sent.next[1]
                ELSE IF sent.outcome = "page"
                THEN records' = <<>> /\ (fpc' = "paging" => (ri' # ri \/ ci' # ci))
                ELSE fpc' = "raised"]_vars

\* findall returned after it listed two kinds and containers of three
\* pages each with six requests
C26_Witness ==
    /\ fpc = "returned"
    /\ call.via = "findall"
    /\ Len(listing) = 3
    /\ Cardinality(Pairs) = 2
    /\ Len(flog) = 6
    /\ \A j \in 1..Len(flog) : flog[j].outcome = "page"

\* the place of the request e in the order of the claim: kinds in the
\* collection's order, and for each kind tenant before global
Rank(e) ==
    2 * (CHOOSE i \in 1..Len(coll.resources) : coll.resources[i] = e.resource)
    + (IF e.container = "tenant" THEN 0 ELSE 1)

\* the items of the requests from the j-th on, in the order received
RECURSIVE Received(_)
Received(j) == IF j > Len(flog) THEN <<>> ELSE flog[j].items \o Received(j + 1)

-----------------------------------------------------------------------------
(* Claims about the Api object, checked under SpecApi *)

\* C9 (as claimed): once an Api has been constructed and authentication has
\* succeeded, headers yields the four headers of the current sandbox, the
\* api key, the organisation and the bearer token, and neither headers nor
\* request fails with 'need to authenticate first'.
C9_HeadersAfterAuthentication ==
    /\ (api.ok /\ apiOp.name = "headers")
       => /\ apiOp.outcome = "returned"
          /\ apiOp.value =
               Some(("x-sandbox-name" :> api.attrs["sandbox"])
                    @@ ("x-api-key" :> api.attrs["_config"].CLIENT_ID)
                    @@ ("x-gw-ims-org-id" :> api.attrs["_config"].ORG_ID)
                    @@ ("Authorization" :> <<"Bearer ", api.attrs["_access_token"]>>))
    /\ (api.ok /\ apiOp.name = "request")
       => apiOp.error # "need to authenticate first"

\* C18 (as claimed): a request answered with a status that is not 2xx
\* fails; one answered with a 2xx status returns the parsed content when
\* there is content, and nothing when there is none.
C18_RequestByStatus ==
    (api.ok /\ apiOp.name = "request") =>
        LET a == apiOp.arg[1] IN
        IF a.status >= 200 /\ a.status < 300
        THEN /\ apiOp.outcome = "returned"
             /\ apiOp.value = IF a.content = <<>> THEN None ELSE Some(a.content)
        ELSE apiOp.outcome = "raised"

-----------------------------------------------------------------------------
(* Claims about the Batch and the DataSet, checked under SpecCatalog *)

\* the import requests among the requests of the last operation
ImportRequests == SelectSeq(op.sent, LAMBDA q : q.path = ImportPath(batch.id))

\* C25: Batch.delete sends exactly one import request; its action is ABORT
\* when the batch's status is one of loading, processing, queued, retrying
\* and staging, and REVERT for every other status, a status the library
\* does not know and an absent status included. The status is the one of
\* the body the Batch holds, fetched first when it holds none; a delete
\* that could not fetch it has no status to go by and sends no import
\* request.
C25_DeleteAction ==
    op.name = "Batch.delete" =>
        /\ batch.body # None =>
              /\ Len(ImportRequests) = 1
              /\ ImportRequests[1] = op.sent[Len(op.sent)]
              /\ ImportRequests[1].method = "POST"
              /\ DOMAIN ImportRequests[1].params = {"action"}
              /\ ImportRequests[1].params["action"] =
                    IF /\ "status" \in DOMAIN batch.body[1]
                       /\ batch.body[1]["status"] \in
                            {"loading", "processing", "queued", "retrying", "staging"}
                    THEN "ABORT" ELSE "REVERT"
        /\ batch.body = None => (ImportRequests = <<>> /\ op.outcome = "raised")
        /\ Len(op.sent) <= 2

\* delete reverted a batch whose status the library does not know
C25_Witness ==
    /\ op.name = "Batch.delete"
    /\ op.outcome = "returned"
    /\ batch.body = Some(("status" :> "paused"))
    /\ Len(ImportRequests) = 1
    /\ ImportRequests[1].params["action"] = "REVERT"

\* delete aborted a batch that was loading
C25_WitnessAbort ==
    /\ op.name = "Batch.delete"
    /\ batch.body = Some(("status" :> "loading"))
    /\ ImportRequests[1].params["action"] = "ABORT"

\* delete reverted a batch whose body has no status
C25_WitnessAbsent ==
    /\ op.name = "Batch.delete"
    /\ batch.body = Some(("version" :> "1.0.0"))
    /\ ImportRequests[1].params["action"] = "REVERT"

-----------------------------------------------------------------------------
(* Claims about create and update of DataSets, checked under SpecDataSet *)

\* the arguments that go to fileDescription, format apart
FileFields == {"delimiters", "quotes", "escapes", "nullMarkers", "header", "charset"}

\* the argument k is given, with a value of a type its branch accepts
WellTyped(k) ==
    given[k] # None =>
        CASE k \in {"name", "description", "charset"} -> given[k][1].t = "str"
          [] k \in {"enableErrorDiagnostics", "header"} -> given[k][1].t = "bool"
          [] k = "observableSchema" -> given[k][1].t = "dict"
          [] k \in {"delimiters", "quotes", "escapes", "nullMarkers"} ->
                given[k][1].t \in {"str", "list"}
          [] k = "schema" -> given[k][1].t = "schema"
          [] k = "dataSourceId" -> given[k][1].t \in {"int", "bool"}
          [] OTHER -> TRUE

\* the entry of fileDescription derived from the given argument k: a list
\* argument given as one string is the list of that string
FileEntry(k) ==
    IF k \in {"delimiters", "quotes", "escapes", "nullMarkers"} /\ given[k][1].t = "str"
    THEN [t |-> "list", v |-> given[k][1].v]
    ELSE given[k][1]

\* the body has exactly the top-level entries derived from the given
\* arguments, fileDescription apart
TopLevelDerived(b) ==
    /\ \A k \in {"name", "description", "enableErrorDiagnostics", "observableSchema",
                 "dataSourceId"} :
          IF given[k] # None THEN k \in DOMAIN b /\ b[k] = given[k][1]
          ELSE k \notin DOMAIN b
    /\ IF given["schema"] # None
       THEN /\ "schemaRef" \in DOMAIN b
            /\ b["schemaRef"]["id"].v = given["schema"][1].v
            /\ b["schemaRef"]["contentType"].v =
                  <<"application/vnd.adobe.xed+json;version=1">>
       ELSE "schemaRef" \notin DOMAIN b
    /\ "tags" \notin DOMAIN b
    /\ ("fileDescription" \in DOMAIN b) = (\E k \in FileFields : given[k] # None)
    /\ DOMAIN b \subseteq {"name", "description", "enableErrorDiagnostics",
                           "observableSchema", "dataSourceId", "schemaRef",
                           "fileDescription", "tags"}

\* the body sent by the create or update that ended last
BodySent == op.sent[1].json[1]

\* create or update ended last
Formed == op.name \in {"DatasetCollection.create", "DataSet.update"}

\* with format or tags given the call fails before any request
FormatAndTagsFail ==
    (Formed /\ (given["format"] # None \/ given["tags"] # None)) =>
        /\ op.outcome = "raised"
        /\ op.sent = <<>>
        /\ op.error \in {"AssertionError", "UnboundLocalError", "AttributeError"}

\* with neither given and the others of their types, a body is sent
BodyIsSent ==
    (Formed /\ given["format"] = None /\ given["tags"] = None
       /\ \A k \in ArgNames : WellTyped(k)) =>
        /\ Len(op.sent) >= 1
        /\ op.sent[1].method = IF op.name = "DataSet.update" THEN "PATCH" ELSE "POST"
        /\ op.sent[1].json # None

C30_WitnessFormat ==
    /\ op.name = "DatasetCollection.create"
    /\ given["format"] = Some([t |-> "str", v |-> <<"csv">>])
    /\ given["schema"] # None
    /\ op.outcome = "raised"
    /\ op.error = "AssertionError"
    /\ op.sent = <<>>

=============================================================================
